---------------------------- MODULE Spec2Model ----------------------------
(***************************************************************************)
(* fert-calc: the chemical formula parser (compound.rs), the tank model    *)
(* (tank.rs) and the dosing engine (concentration.rs).                     *)
(*                                                                         *)
(* A formula is a sequence of one-character strings.  An element count is  *)
(* a Rust u32; the formulas checked here keep every count far below 2^32,  *)
(* so the only u32 wrap that can occur is the `cnt - 1` of process_trail   *)
(* at cnt = 0, which panics when the build has overflow checks and wraps   *)
(* otherwise.  The build is fixed by the variable overflow_checks.         *)
(* An f64 is modelled by an exact non-negative rational [n, d]; d = 0      *)
(* stands for the non-finite results of a division by zero (n = 1: inf,    *)
(* n = 0: NaN).  In the doses rounding is not modelled: a chain of         *)
(* products and quotients has its exact value.  The volume of a tank is    *)
(* computed in f64, each product rounded, because `as usize` truncates it. *)
(***************************************************************************)
EXTENDS Integers, Sequences, FiniteSets, TLC

VARIABLES
    formula,            \* the &str handed to Compound::new
    overflow_checks,    \* TRUE: u32 overflow panics; FALSE: it wraps
    pos,                \* index of the next character of the scan
    scan,               \* the locals of Compound::new (see NewLocals)
    flushed,            \* history: the names handed to process_acc by this call
    result,             \* the Result<Compound> returned, or Pending
    tank,               \* the Tank of a dosing request
    request,            \* the DryDosing / SolutionDosing request
    outcome,            \* the Result<DiluteResult> of dilute, or Pending
    info,               \* the components_percentage list of a fertilizer, or Pending
    fraction,           \* an element and the Option<f64> of element_fraction for it
    mix_input,          \* what a MixedFertilizer is built from
    is_percents,        \* whether the portions of a mix are percentages
    mix,                \* the Result<MixedFertilizer> of a constructor, or Pending
    db_input,           \* the entries of the text handed to load_db, in map order
    db_pos,             \* index of the next entry of load_db's loop
    known_fertilizers,  \* FertilizersDb.known_fertilizers: name -> fertilizer
    loaded,             \* the Result<()> of load_db, or Pending
    db_before,          \* history: known_fertilizers when the current load_db was called
    db_loads,           \* the number of load_db calls so far
    handlers,           \* the web requests being handled: client -> its handler's state
    locks,              \* the two mutexes of WebState: holder and poisoned flag
    services            \* the handlers registered with the App that is served

vars == <<formula, overflow_checks, pos, scan, flushed, result, tank, request, outcome,
          info, fraction, mix_input, is_percents, mix,
          db_input, db_pos, known_fertilizers, loaded, db_before, db_loads,
          handlers, locks, services>>

parseVars == <<formula, overflow_checks, pos, scan, flushed, result>>
doseVars == <<tank, request, outcome>>
infoVars == <<info, fraction>>
mixVars == <<mix_input, is_percents, mix>>
dbVars == <<db_input, db_pos, known_fertilizers, loaded, db_before, db_loads>>
webVars == <<handlers, locks, services>>

-----------------------------------------------------------------------------
(* Characters *)

AsciiUppercase ==
    {"A","B","C","D","E","F","G","H","I","J","K","L","M",
     "N","O","P","Q","R","S","T","U","V","W","X","Y","Z"}

\* Characters outside ASCII are written by their code point: a lowercase
\* letter of two bytes (e with acute), the middle dot (two bytes, no letter)
\* and the euro sign (three bytes, no letter).
SmallEAcute == "U+00E9"
MiddleDot == "U+00B7"
EuroSign == "U+20AC"

\* char::is_lowercase: the Unicode property, not only a..z
Lowercase ==
    {"a","b","c","d","e","f","g","h","i","j","k","l","m",
     "n","o","p","q","r","s","t","u","v","w","x","y","z"} \cup {SmallEAcute}

\* char::len_utf8
len_utf8(chr) ==
    IF chr \in {SmallEAcute, MiddleDot} THEN 2 ELSE IF chr = EuroSign THEN 3 ELSE 1

RECURSIVE ByteLen(_)
\* str::len: the length in bytes
ByteLen(s) == IF s = <<>> THEN 0 ELSE len_utf8(Head(s)) + ByteLen(Tail(s))

AsciiDigit == {"0","1","2","3","4","5","6","7","8","9"}

to_digit(chr) ==
    CASE chr = "0" -> 0 [] chr = "1" -> 1 [] chr = "2" -> 2 [] chr = "3" -> 3
      [] chr = "4" -> 4 [] chr = "5" -> 5 [] chr = "6" -> 6 [] chr = "7" -> 7
      [] chr = "8" -> 8 [] chr = "9" -> 9

-----------------------------------------------------------------------------
(* Option and Result values *)

None == [some |-> FALSE]
Some(x) == [some |-> TRUE, val |-> x]

Pending == [status |-> "pending"]
Ok(v) == [status |-> "ok", val |-> v]
Err(kind, text) == [status |-> "err", error |-> <<kind, text>>]
Panic == [status |-> "panic"]

-----------------------------------------------------------------------------
(* The element catalog (elements.toml): name -> Element.  Molar masses are *)
(* in units of 10^-4 g/mol.                                                *)

Elt(mass, insig, prio, als) ==
    [molar_mass |-> mass, insignificant |-> insig, priority |-> prio, aliases |-> als]

KnownElements ==
    (<<"N">> :> Elt(140070, FALSE, 100, << <<"N","O","3">>, <<"N","H","4">> >>)) @@
    (<<"P">> :> Elt(309740, FALSE, 99, << <<"P","O","4">>, <<"P","2","O","5">> >>)) @@
    (<<"K">> :> Elt(390983, FALSE, 98, << <<"K","2","O">> >>)) @@
    (<<"M","g">> :> Elt(243050, FALSE, 97, << <<"M","g","O">> >>)) @@
    (<<"C","a">> :> Elt(400780, FALSE, 96, << <<"C","a","O">> >>)) @@
    (<<"N","a">> :> Elt(229898, FALSE, 0, << >>)) @@
    (<<"S">> :> Elt(320600, FALSE, 95, << <<"S","O","4">> >>)) @@
    (<<"C","u">> :> Elt(635460, FALSE, 0, << >>)) @@
    (<<"C">> :> Elt(120110, TRUE, 0, << >>)) @@
    (<<"H">> :> Elt(10078, TRUE, 0, << >>)) @@
    (<<"O">> :> Elt(159990, TRUE, 0, << >>))

-----------------------------------------------------------------------------
(* Compound: elements is the HashMap<Element, u32>, keyed by element name  *)

Compound(elements, name) == [elements |-> elements, name |-> name]

\* *map.entry(elt).or_default() += n
AddCount(elements, elt, n) ==
    IF elt \in DOMAIN elements
    THEN [elements EXCEPT ![elt] = @ + n]
    ELSE elements @@ (elt :> n)

RECURSIVE MergeCounts_Overwrite(_, _, _, _)
\* a merge that inserts the group's counts instead of adding them
MergeCounts_Overwrite(into, from, todo, mult) ==
    IF todo = {} THEN into
    ELSE LET elt == CHOOSE e \in todo : TRUE
             put == IF elt \in DOMAIN into
                    THEN [into EXCEPT ![elt] = from[elt] * mult]
                    ELSE into @@ (elt :> from[elt] * mult)
         IN  MergeCounts_Overwrite(put, from, todo \ {elt}, mult)

RECURSIVE MergeCounts(_, _, _, _)
\* for each (elt, cnt) of `from` restricted to `todo`: into[elt] += cnt * mult
MergeCounts(into, from, todo, mult) ==
    IF todo = {} THEN into
    ELSE LET elt == CHOOSE e \in todo : TRUE
         IN  MergeCounts(AddCount(into, elt, from[elt] * mult), from, todo \ {elt}, mult)

\* a lookup that skips a name the catalog does not have
process_acc_Lenient(elements, acc, cnt) ==
    IF acc \in DOMAIN KnownElements
    THEN Ok(AddCount(elements, acc, cnt))
    ELSE Ok(elements)

\* Compound::process_acc: the new element map, or the error
process_acc(elements, acc, cnt) ==
    IF acc \in DOMAIN KnownElements
    THEN Ok(AddCount(elements, acc, cnt))
    ELSE Err("UnknownElement", acc)

\* a flush that adds the whole literal on top of the 1 process_acc added
process_trail_AddsLiteral(elements, last_cnt, last_element, last_subcompound, checks) ==
    IF last_cnt.some
    THEN IF last_subcompound.some
         THEN Ok([elements |-> MergeCounts(elements, last_subcompound.val.elements,
                                           DOMAIN last_subcompound.val.elements,
                                           last_cnt.val),
                  flushed |-> TRUE])
         ELSE IF last_element.some
              THEN Ok([elements |-> AddCount(elements, last_element.val, last_cnt.val),
                       flushed |-> TRUE])
              ELSE Err("DanglingMultiplier", <<>>)
    ELSE IF last_subcompound.some
         THEN Ok([elements |-> MergeCounts(elements, last_subcompound.val.elements,
                                           DOMAIN last_subcompound.val.elements, 1),
                  flushed |-> TRUE])
         ELSE Ok([elements |-> elements, flushed |-> FALSE])

\* a flush that lets a digit with nothing before it wait for what follows
process_trail_KeepsDigit(elements, last_cnt, last_element, last_subcompound, checks) ==
    IF last_cnt.some
    THEN IF last_subcompound.some
         THEN Ok([elements |-> MergeCounts(elements, last_subcompound.val.elements,
                                           DOMAIN last_subcompound.val.elements,
                                           last_cnt.val),
                  flushed |-> TRUE])
         ELSE IF last_element.some
              THEN IF last_cnt.val = 0 /\ checks
                   THEN Panic
                   ELSE Ok([elements |-> AddCount(elements, last_element.val,
                                                  last_cnt.val - 1),
                            flushed |-> TRUE])
              ELSE Ok([elements |-> elements, flushed |-> FALSE])
    ELSE IF last_subcompound.some
         THEN Ok([elements |-> MergeCounts(elements, last_subcompound.val.elements,
                                           DOMAIN last_subcompound.val.elements, 1),
                  flushed |-> TRUE])
         ELSE Ok([elements |-> elements, flushed |-> FALSE])

\* Compound::process_trail: Ok([elements, flushed]) | Err | Panic
process_trail(elements, last_cnt, last_element, last_subcompound, checks) ==
    IF last_cnt.some
    THEN IF last_subcompound.some
         THEN Ok([elements |-> MergeCounts(elements, last_subcompound.val.elements,
                                           DOMAIN last_subcompound.val.elements,
                                           last_cnt.val),
                  flushed |-> TRUE])
         ELSE IF last_element.some
              THEN IF last_cnt.val = 0 /\ checks
                   THEN Panic   \* attempt to subtract with overflow
                   ELSE \* wrapping: count + (cnt - 1 mod 2^32) mod 2^32
                        Ok([elements |-> AddCount(elements, last_element.val,
                                                  last_cnt.val - 1),
                            flushed |-> TRUE])
              ELSE Err("DanglingMultiplier", <<>>)
    ELSE IF last_subcompound.some
         THEN Ok([elements |-> MergeCounts(elements, last_subcompound.val.elements,
                                           DOMAIN last_subcompound.val.elements, 1),
                  flushed |-> TRUE])
         ELSE Ok([elements |-> elements, flushed |-> FALSE])


-----------------------------------------------------------------------------
(* Compound::new: the locals of one call, and one operator per branch of   *)
(* the loop over formula.chars().  A branch yields the locals after it,    *)
(* Pending or the early return (res), and the name it handed to            *)
(* process_acc, if any (looked_up).                                        *)

NewLocals(name) ==
    [acc |-> <<>>,
     new_compound |-> Compound(<<>>, name),
     last_element |-> None,
     last_subcompound |-> None,
     last_cnt |-> None,
     obraces |-> 0,
     ebraces |-> 0]

Continue(s, looked_up) == [scan |-> s, res |-> Pending, looked_up |-> looked_up]
Return(s, res, looked_up) == [scan |-> s, res |-> res, looked_up |-> looked_up]

WithElements(s, elements) ==
    [s EXCEPT !.new_compound = Compound(elements, s.new_compound.name)]

RECURSIVE New(_, _)

\* a group branch that leaves obraces and ebraces as they are when the group closes
BranchNested_KeepsBraces(s, chr, checks) ==
    LET eb == IF chr = ")" THEN s.ebraces + 1 ELSE s.ebraces
        ob == IF chr /= ")" /\ chr = "(" THEN s.obraces + 1 ELSE s.obraces
    IN  IF eb /= ob
        THEN Continue([s EXCEPT !.acc = Append(@, chr), !.obraces = ob, !.ebraces = eb],
                      None)
        ELSE LET sub == New(s.acc, checks)
             IN  IF sub.status = "ok"
                 THEN Continue([s EXCEPT !.last_subcompound = Some(sub.val),
                                         !.obraces = ob, !.ebraces = eb, !.acc = <<>>],
                               None)
                 ELSE Return(s, sub, None)

\* obraces > 0: copy the character, or parse the captured group
BranchNested(s, chr, checks) ==
    LET eb == IF chr = ")" THEN s.ebraces + 1 ELSE s.ebraces
        ob == IF chr /= ")" /\ chr = "(" THEN s.obraces + 1 ELSE s.obraces
    IN  IF eb /= ob
        THEN Continue([s EXCEPT !.acc = Append(@, chr), !.obraces = ob, !.ebraces = eb],
                      None)
        ELSE LET sub == New(s.acc, checks)
             IN  IF sub.status = "ok"
                 THEN Continue([s EXCEPT !.last_subcompound = Some(sub.val),
                                         !.obraces = 0, !.ebraces = 0, !.acc = <<>>],
                               None)
                 ELSE Return(s, sub, None)

\* chr.is_ascii_uppercase()
BranchUppercase(s, chr, checks) ==
    LET trail == process_trail(s.new_compound.elements, s.last_cnt, s.last_element,
                               s.last_subcompound, checks)
    IN  IF trail.status /= "ok" THEN Return(s, trail, None)
        ELSE
        LET s1 == IF trail.val.flushed
                  THEN [WithElements(s, trail.val.elements)
                            EXCEPT !.last_element = None, !.last_cnt = None,
                                   !.last_subcompound = None]
                  ELSE s
        IN  IF s1.acc /= <<>>
            THEN LET elt == process_acc(s1.new_compound.elements, s1.acc, 1)
                 IN  IF elt.status /= "ok" THEN Return(s1, elt, Some(s1.acc))
                     ELSE Continue([WithElements(s1, elt.val)
                                        EXCEPT !.last_element = Some(s1.acc),
                                               !.acc = <<chr>>],
                                   Some(s1.acc))
            ELSE Continue([s1 EXCEPT !.acc = <<chr>>], None)

\* chr.is_lowercase()
BranchLowercase(s, chr) ==
    Continue([s EXCEPT !.acc = Append(@, chr)], None)

\* chr.is_ascii_digit()
BranchDigit(s, chr) ==
    LET cnt == to_digit(chr)
        next_cnt == IF s.last_cnt.some THEN Some(s.last_cnt.val * 10 + cnt) ELSE Some(cnt)
    IN  IF ~s.last_subcompound.some /\ s.acc /= <<>>
        THEN LET elt == process_acc(s.new_compound.elements, s.acc, 1)
             IN  IF elt.status /= "ok" THEN Return(s, elt, Some(s.acc))
                 ELSE Continue([WithElements(s, elt.val)
                                    EXCEPT !.last_element = Some(s.acc),
                                           !.acc = <<>>,
                                           !.last_cnt = next_cnt],
                               Some(s.acc))
        ELSE Continue([s EXCEPT !.last_cnt = next_cnt], None)

\* chr == '('
BranchOpen(s, checks) ==
    LET trail == process_trail(s.new_compound.elements, s.last_cnt, s.last_element,
                               s.last_subcompound, checks)
        Enter(t) == [t EXCEPT !.acc = <<>>, !.last_element = None, !.last_cnt = None,
                              !.last_subcompound = None, !.obraces = @ + 1]
    IN  IF trail.status /= "ok" THEN Return(s, trail, None)
        ELSE
        LET s1 == WithElements(s, trail.val.elements)
        IN  IF ~trail.val.flushed /\ s1.acc /= <<>>
            THEN LET elt == process_acc(s1.new_compound.elements, s1.acc, 1)
                 IN  IF elt.status /= "ok" THEN Return(s1, elt, Some(s1.acc))
                     ELSE Continue(Enter(WithElements(s1, elt.val)), Some(s1.acc))
            ELSE Continue(Enter(s1), None)

RECURSIVE SliceFrom(_, _)
\* &s[n..]: the text from byte n on; a panic when byte n is inside a character
\* or beyond the end
SliceFrom(s, n) ==
    IF n = 0 THEN Ok(s)
    ELSE IF s = <<>> THEN Panic
    ELSE IF len_utf8(Head(s)) > n THEN Panic
    ELSE SliceFrom(Tail(s), n - len_utf8(Head(s)))

\* a remainder that is longer than the text after the '*'
remain_Longer(hydrate_formula) == Append(hydrate_formula, "N")

\* new_hydrate: `let remain`, the text after the one-digit multiplier if there is one
remain(hydrate_formula) ==
    IF Head(hydrate_formula) \in AsciiDigit THEN Tail(hydrate_formula)
    ELSE hydrate_formula

\* Compound::new_hydrate
new_hydrate(hydrate_formula, checks) ==
    IF ByteLen(hydrate_formula) < 2
    THEN Err("InvalidHydrate", hydrate_formula)
    ELSE LET first_c == Head(hydrate_formula)
             mult == IF first_c \in AsciiDigit THEN to_digit(first_c) ELSE 1
             compound == New(remain(hydrate_formula), checks)
         IN  IF compound.status /= "ok" THEN compound
             ELSE Ok(Compound([e \in DOMAIN compound.val.elements |->
                                   compound.val.elements[e] * mult],
                              compound.val.name))

\* new_hydrate on the slice &formula[pos+1..], which may have panicked
HydrateOf(slice, checks) ==
    IF slice.status /= "ok" THEN slice ELSE new_hydrate(slice.val, checks)

\* chr == '*': rest is &formula[pos+1..], pos being the index of the character
\* used as a byte offset; the loop goes on after the merge
BranchHydrate(s, rest, checks) ==
    LET hydrate == HydrateOf(rest, checks)
    IN  IF hydrate.status /= "ok" THEN Return(s, hydrate, None)
        ELSE Continue(WithElements(s, MergeCounts(s.new_compound.elements,
                                                  hydrate.val.elements,
                                                  DOMAIN hydrate.val.elements, 1)),
                      None)

\* any other character is ignored
BranchGarbage(s) == Continue(s, None)

\* the body of the for loop for one character
Branch(s, chr, rest, checks) ==
    IF s.obraces > 0 THEN BranchNested(s, chr, checks)
    ELSE IF chr \in AsciiUppercase THEN BranchUppercase(s, chr, checks)
    ELSE IF chr \in Lowercase THEN BranchLowercase(s, chr)
    ELSE IF chr \in AsciiDigit THEN BranchDigit(s, chr)
    ELSE IF chr = "(" THEN BranchOpen(s, checks)
    ELSE IF chr = "*" THEN BranchHydrate(s, rest, checks)
    ELSE BranchGarbage(s)

\* after the loop: the trailing flush, the empty check, and the result
Finish(s, checks) ==
    LET trail == process_trail(s.new_compound.elements, s.last_cnt, s.last_element,
                               s.last_subcompound, checks)
    IN  IF trail.status /= "ok" THEN Return(s, trail, None)
        ELSE
        LET s1 == WithElements(s, trail.val.elements)
            elt == process_acc(s1.new_compound.elements, s1.acc, 1)
            looks == ~trail.val.flushed /\ s1.acc /= <<>>
            s2 == IF looks /\ elt.status = "ok" THEN WithElements(s1, elt.val) ELSE s1
            looked_up == IF looks THEN Some(s1.acc) ELSE None
        IN  IF looks /\ elt.status /= "ok" THEN Return(s1, elt, looked_up)
            ELSE IF DOMAIN s2.new_compound.elements = {}
                 THEN Return(s2, Err("EmptyCompound", <<>>), looked_up)
                 ELSE Return(s2, Ok(s2.new_compound), looked_up)

RECURSIVE ScanFrom(_, _, _, _)
\* the for loop from character i on, then Finish
ScanFrom(f, i, s, checks) ==
    IF i > Len(f) THEN Finish(s, checks).res
    ELSE LET b == Branch(s, f[i], SliceFrom(f, i), checks)
         IN  IF b.res.status = "pending" THEN ScanFrom(f, i + 1, b.scan, checks)
             ELSE b.res

\* Compound::new(formula, known_elts), for a build with or without overflow checks
New(f, checks) == ScanFrom(f, 1, NewLocals(f), checks)

\* Compound::molar_mass, in 10^-4 g/mol
RECURSIVE MassOf(_, _)
MassOf(elements, todo) ==
    IF todo = {} THEN 0
    ELSE LET elt == CHOOSE e \in todo : TRUE
         IN  KnownElements[elt].molar_mass * elements[elt] + MassOf(elements, todo \ {elt})

molar_mass(compound) == MassOf(compound.elements, DOMAIN compound.elements)

-----------------------------------------------------------------------------
(* f64 values as exact rationals.  The values that occur are non-negative: *)
(* a finite n/d in lowest terms with d > 0, Inf (a positive number over    *)
(* zero) or NaN (0/0, Inf * 0, Inf / Inf).                                 *)

RECURSIVE Gcd(_, _)
Gcd(a, b) == IF b = 0 THEN a ELSE Gcd(b, a % b)

Rat(n, d) == LET g == Gcd(n, d) IN [n |-> n \div g, d |-> d \div g]
FromInt(k) == [n |-> k, d |-> 1]
Inf == [n |-> 1, d |-> 0]
NaN == [n |-> 0, d |-> 0]

\* zero, pos (finite and positive), inf or nan
Class(a) ==
    IF a = NaN THEN "nan" ELSE IF a = Inf THEN "inf"
    ELSE IF a.n = 0 THEN "zero" ELSE "pos"

Times(b) == [op |-> "*", by |-> b]
Over(b) == [op |-> "/", by |-> b]

\* the IEEE 754 class of a * b and of a / b from the classes of a and b
ClassAfter(c, op, cb) ==
    IF c = "nan" \/ cb = "nan" THEN "nan"
    ELSE IF op = "*"
    THEN (IF "inf" \in {c, cb} THEN (IF "zero" \in {c, cb} THEN "nan" ELSE "inf")
          ELSE IF "zero" \in {c, cb} THEN "zero" ELSE "pos")
    ELSE (IF c = "inf" THEN (IF cb = "inf" THEN "nan" ELSE "inf")
          ELSE IF cb = "inf" THEN "zero"
          ELSE IF cb = "zero" THEN (IF c = "zero" THEN "nan" ELSE "inf")
          ELSE c)

RECURSIVE ClassOf(_, _, _)
\* the class of ((first op1 b1) op2 b2) ..., evaluated left to right from step i
ClassOf(c, ops, i) ==
    IF i > Len(ops) THEN c
    ELSE ClassOf(ClassAfter(c, ops[i].op, Class(ops[i].by)), ops, i + 1)

RECURSIVE CancelIn(_, _, _)
\* n and the factors ds after the common factors of n and each ds[k] are removed
CancelIn(n, ds, k) ==
    IF k > Len(ds) THEN <<n, ds>>
    ELSE LET g == Gcd(n, ds[k])
         IN  CancelIn(n \div g, [ds EXCEPT ![k] = @ \div g], k + 1)

RECURSIVE CancelAll(_, _, _)
CancelAll(ns, ds, i) ==
    IF i > Len(ns) THEN <<ns, ds>>
    ELSE LET c == CancelIn(ns[i], ds, 1)
         IN  CancelAll([ns EXCEPT ![i] = c[1]], c[2], i + 1)

RECURSIVE Product(_)
Product(s) == IF s = <<>> THEN 1 ELSE Head(s) * Product(Tail(s))

\* the exact value of ((first op1 b1) op2 b2) ... : when it is finite and positive
\* every operand is, and it is the quotient of the products, in lowest terms
Eval(first, ops) ==
    LET c == ClassOf(Class(first), ops, 1)
        ns == <<first.n>> \o [i \in 1..Len(ops) |->
                                 IF ops[i].op = "*" THEN ops[i].by.n ELSE ops[i].by.d]
        ds == <<first.d>> \o [i \in 1..Len(ops) |->
                                 IF ops[i].op = "*" THEN ops[i].by.d ELSE ops[i].by.n]
        lowest == CancelAll(ns, ds, 1)
    IN  IF c = "nan" THEN NaN
        ELSE IF c = "inf" THEN Inf
        ELSE IF c = "zero" THEN FromInt(0)
        ELSE [n |-> Product(lowest[1]), d |-> Product(lowest[2])]

\* a * b
FMul(a, b) == Eval(a, <<Times(b)>>)

\* a / b
FDiv(a, b) == Eval(a, <<Over(b)>>)

\* a + b
FAdd(a, b) ==
    IF Class(a) = "nan" \/ Class(b) = "nan" THEN NaN
    ELSE IF Class(a) = "inf" \/ Class(b) = "inf" THEN Inf
    ELSE LET g == Gcd(a.d, b.d)
         IN  Rat(a.n * (b.d \div g) + b.n * (a.d \div g), a.d * (b.d \div g))

\* Operands of either sign: a negative number has a negative numerator.
Negative(x) == x.n < 0
Abs(x) == IF x.n < 0 THEN [n |-> 0 - x.n, d |-> x.d] ELSE x
Signed(negative, x) == IF negative /\ x.n > 0 THEN [n |-> 0 - x.n, d |-> x.d] ELSE x

\* a - b for a, b >= 0
FSub(a, b) ==
    IF Class(a) = "nan" \/ Class(b) = "nan" THEN NaN
    ELSE IF Class(a) = "inf" THEN (IF Class(b) = "inf" THEN NaN ELSE Inf)
    ELSE IF Class(b) = "inf" THEN Signed(TRUE, Inf)
    ELSE LET g == Gcd(a.d, b.d)
             num == a.n * (b.d \div g) - b.n * (a.d \div g)
             den == a.d * (b.d \div g)
         IN  IF num < 0 THEN Signed(TRUE, Rat(0 - num, den)) ELSE Rat(num, den)

\* a * b, a / b and a + b for operands of either sign
SMul(a, b) == Signed(Negative(a) /= Negative(b), FMul(Abs(a), Abs(b)))
SDiv(a, b) == Signed(Negative(a) /= Negative(b), FDiv(Abs(a), Abs(b)))
SAdd(a, b) ==
    IF Negative(a) = Negative(b) THEN Signed(Negative(a), FAdd(Abs(a), Abs(b)))
    ELSE IF Negative(b) THEN FSub(a, Abs(b))
    ELSE FSub(b, Abs(a))

-----------------------------------------------------------------------------
(* Element ordering (Ord for Element): priority descending, then name      *)

Ascii ==
    <<" ","(",")","*","-","0","1","2","3","4","5","6","7","8","9",
      "A","B","C","D","E","F","G","H","I","J","K","L","M",
      "N","O","P","Q","R","S","T","U","V","W","X","Y","Z",
      "a","b","c","d","e","f","g","h","i","j","k","l","m",
      "n","o","p","q","r","s","t","u","v","w","x","y","z">>

Code(c) == CHOOSE i \in 1..Len(Ascii) : Ascii[i] = c

RECURSIVE NameLess(_, _)
\* String::cmp(a, b) == Less
NameLess(a, b) ==
    IF b = <<>> THEN FALSE
    ELSE IF a = <<>> THEN TRUE
    ELSE IF Head(a) /= Head(b) THEN Code(Head(a)) < Code(Head(b))
    ELSE NameLess(Tail(a), Tail(b))

is_insignificant(name) == KnownElements[name].insignificant
priority(name) == KnownElements[name].priority

\* an order by name alone
ElementLess_ByName(a, b) == NameLess(a, b)

\* Element::cmp(a, b) == Less
ElementLess(a, b) ==
    IF priority(a) = priority(b) THEN NameLess(a, b) ELSE priority(a) > priority(b)

RECURSIVE Sorted(_)
\* .sorted() of entries whose elements are distinct
Sorted(entries) ==
    IF entries = {} THEN <<>>
    ELSE LET first == CHOOSE x \in entries :
                          \A y \in entries \ {x} : ElementLess(x.element, y.element)
         IN  <<first>> \o Sorted(entries \ {first})

SeqRange(s) == {s[i] : i \in 1..Len(s)}

-----------------------------------------------------------------------------
(* Compound::element_fraction, the alias rates and components_percentage.  *)
(* A step that follows a `?`, a map or an unwrap is an operator of its own *)
(* that takes the Result it continues from.                                *)

\* opt.ok_or_else(|| err)
ok_or_else(opt, err) == IF opt.some THEN Ok(opt.val) ELSE err

\* res.unwrap() panics on an Err
unwrap(res) == IF res.status = "ok" THEN res ELSE Panic

\* a collection built from items each of which may have panicked
Collected(items) ==
    IF \E i \in DOMAIN items : items[i].status /= "ok" THEN Panic
    ELSE Ok([i \in DOMAIN items |-> items[i].val])

\* a fraction that is 0 for an element the compound does not hold
element_fraction_ZeroWhenAbsent(compound, element) ==
    IF element \in DOMAIN compound.elements
    THEN Some(FDiv(FromInt(KnownElements[element].molar_mass * compound.elements[element]),
                   FromInt(molar_mass(compound))))
    ELSE Some(FromInt(0))

element_fraction(compound, element) ==
    IF element \in DOMAIN compound.elements
    THEN Some(FDiv(FromInt(KnownElements[element].molar_mass * compound.elements[element]),
                   FromInt(molar_mass(compound))))
    ELSE None

\* element_from_alias_rate after `Compound::new(alias, known_elts)?`
FractionInAlias(molecule, element, alias) ==
    IF molecule.status /= "ok" THEN molecule
    ELSE ok_or_else(element_fraction(molecule.val, element), Err("InvalidAlias", alias))

\* Element::element_from_alias_rate
element_from_alias_rate(element, alias, checks) ==
    FractionInAlias(New(alias, checks), element, alias)

\* .map(|rate| 1.0 / rate)
Inverted(rate) ==
    IF rate.status = "ok" THEN Ok(FDiv(FromInt(1), rate.val)) ELSE rate

\* Element::element_to_alias_rate
element_to_alias_rate(element, alias, checks) ==
    Inverted(element_from_alias_rate(element, alias, checks))

\* an alias reported at the fraction of its element, unconverted
ElementConcentrationAlias_Unconverted(alias, percentage, rate) ==
    IF rate.status = "ok"
    THEN Ok([element_alias |-> alias, concentration |-> percentage])
    ELSE rate

\* ElementConcentrationAlias { element_alias, concentration: percentage * rate }
ElementConcentrationAlias(alias, percentage, rate) ==
    IF rate.status = "ok"
    THEN Ok([element_alias |-> alias, concentration |-> FMul(percentage, rate.val)])
    ELSE rate

\* the aliases of one element at a given fraction
AliasConcentrations(element, percentage, checks) ==
    Collected([i \in 1..Len(KnownElements[element].aliases) |->
        ElementConcentrationAlias(KnownElements[element].aliases[i], percentage,
            unwrap(element_to_alias_rate(element, KnownElements[element].aliases[i],
                                         checks)))])

\* ElementsConcentrationsWithAliases { element, concentration: percentage, aliases }
ElementsConcentrationsWithAliases(element, percentage, aliases) ==
    IF aliases.status = "ok"
    THEN Ok([element |-> element, concentration |-> percentage, aliases |-> aliases.val])
    ELSE aliases

\* the closure of components_percentage for one significant element
ElementConcentrations(element, percentage, checks) ==
    ElementsConcentrationsWithAliases(element, percentage,
                                      AliasConcentrations(element, percentage, checks))

\* .sorted().collect()
SortedEntries(entries) ==
    IF entries.status = "ok"
    THEN Ok(Sorted({entries.val[e] : e \in DOMAIN entries.val}))
    ELSE entries

\* <Compound as Fertilizer>::components_percentage
components_percentage(compound, checks) ==
    SortedEntries(Collected(
        [e \in {x \in DOMAIN compound.elements : ~is_insignificant(x)} |->
            ElementConcentrations(e,
                FDiv(FromInt(KnownElements[e].molar_mass * compound.elements[e]),
                     FromInt(molar_mass(compound))),
                checks)]))

-----------------------------------------------------------------------------
(* Tank *)

Left(v) == [left |-> TRUE, val |-> v]
Right(v) == [left |-> FALSE, val |-> v]
LinearDimensions(h, l, w) == [height |-> h, length |-> l, width |-> w]

\* the decimal numbers of a tank (a volume, a dimension, REAL_VOLUME_MULT) are
\* kept as written, n / d; the code holds the f64 nearest to each of them and
\* rounds every product to an f64, and `as usize` truncates what is left.

\* f64 on the tank path. A finite non-negative f64 is m x 2^e with m below
\* 2^53; m is kept as its digits in base Limb, the least significant first,
\* with 53 bits when it is not 0.
Limb == 2 ^ 13

\* the digits of a natural number
RECURSIVE Digits(_)
Digits(n) == IF n = 0 THEN <<>> ELSE <<n % Limb>> \o Digits(n \div Limb)

\* the natural number of the digits
RECURSIVE Natural(_)
Natural(a) == IF a = <<>> THEN 0 ELSE Head(a) + Limb * Natural(Tail(a))

\* the digits without leading zeros
RECURSIVE Trim(_)
Trim(a) ==
    IF a /= <<>> /\ a[Len(a)] = 0 THEN Trim(SubSeq(a, 1, Len(a) - 1)) ELSE a

\* the digits of the sum of columns[i] x Limb^(i-1), plus carry
RECURSIVE Carry(_, _)
Carry(columns, carry) ==
    IF columns = <<>> THEN Digits(carry)
    ELSE <<(Head(columns) + carry) % Limb>>
         \o Carry(Tail(columns), (Head(columns) + carry) \div Limb)

\* the number of bits of a natural number
RECURSIVE Bits(_)
Bits(n) == IF n = 0 THEN 0 ELSE 1 + Bits(n \div 2)

BitLength(a) == IF a = <<>> THEN 0 ELSE 13 * (Len(a) - 1) + Bits(a[Len(a)])

\* a x 2^k
ShiftLeft(a, k) ==
    IF a = <<>> THEN <<>>
    ELSE [i \in 1..(k \div 13) |-> 0]
         \o Carry([i \in 1..Len(a) |-> a[i] * 2 ^ (k % 13)], 0)

\* floor(a / 2^k)
ShiftRight(a, k) ==
    LET b == SubSeq(a, k \div 13 + 1, Len(a))
        r == k % 13
    IN  Trim([i \in 1..Len(b) |->
                 b[i] \div 2 ^ r
                 + (IF i < Len(b) THEN (b[i + 1] % 2 ^ r) * 2 ^ (13 - r) ELSE 0)])

\* the sum of a[i] x b[k - i + 1] over the digits of column k, from i on
RECURSIVE Column(_, _, _, _)
Column(a, b, k, i) ==
    IF i > Len(a) \/ i > k THEN 0
    ELSE (IF k - i + 1 <= Len(b) THEN a[i] * b[k - i + 1] ELSE 0)
         + Column(a, b, k, i + 1)

\* a x b, exact
Wide(a, b) ==
    IF a = <<>> \/ b = <<>> THEN <<>>
    ELSE Trim(Carry([k \in 1..(Len(a) + Len(b) - 1) |-> Column(a, b, k, 1)], 0))

\* floor(a / d) and the remainder, for a divisor below 2^18, from the most
\* significant digit down
RECURSIVE Divide(_, _, _)
Divide(a, d, rem) ==
    IF a = <<>> THEN [q |-> <<>>, r |-> rem]
    ELSE LET cur == rem * Limb + a[Len(a)]
             low == Divide(SubSeq(a, 1, Len(a) - 1), d, cur % d)
         IN  [q |-> low.q \o <<cur \div d>>, r |-> low.r]

F64(m, e) == [m |-> m, e |-> e]
Zero == F64(<<>>, 0)

\* the f64 nearest to a x 2^e (a little more when `more`), ties to even
Nearest(a, e, more) ==
    LET len == BitLength(a)
        k == len - 53
        q == ShiftRight(a, k - 1)
        kept == ShiftRight(q, 1)
        inexact == more \/ ShiftLeft(q, k - 1) /= a
        up == q[1] % 2 = 1 /\ (inexact \/ kept[1] % 2 = 1)
        m == IF up THEN Carry(kept, 1) ELSE kept
    IN  IF len <= 53 THEN F64(ShiftLeft(a, 53 - len), e - (53 - len))
        ELSE IF BitLength(m) > 53 THEN F64(ShiftRight(m, 1), e + k + 1)
        ELSE F64(m, e + k)

\* the f64 of a decimal number n / d, as the parser and the compiler give it
Parsed(x) ==
    LET s == 55 + Bits(x.d)
        div == Divide(ShiftLeft(Digits(x.n), s), x.d, 0)
    IN  IF x.n = 0 THEN Zero ELSE Nearest(Trim(div.q), 0 - s, div.r /= 0)

\* a * b in f64
Mul(a, b) ==
    IF a.m = <<>> \/ b.m = <<>> THEN Zero
    ELSE Nearest(Wide(a.m, b.m), a.e + b.e, FALSE)

REAL_VOLUME_MULT == Rat(85, 100)

\* LinearDimensions::volume
volume(lin) == Mul(Mul(Parsed(lin.height), Parsed(lin.length)), Parsed(lin.width))

\* `x as usize` for a finite non-negative x below 2^31
AsUsize(x) ==
    IF x.m = <<>> THEN 0
    ELSE IF x.e >= 0 THEN Natural(ShiftLeft(x.m, x.e))
    ELSE Natural(ShiftRight(x.m, 0 - x.e))

\* Tank::effective_volume
effective_volume(t) ==
    LET mult == IF t.absolute THEN FromInt(1) ELSE REAL_VOLUME_MULT
        vol == IF t.volume.left THEN Parsed(t.volume.val) ELSE volume(t.volume.val)
    IN  AsUsize(Mul(vol, Parsed(mult)))

\* Tank::metric_volume
metric_volume(t) ==
    AsUsize(IF t.volume.left THEN Parsed(t.volume.val) ELSE volume(t.volume.val))

-----------------------------------------------------------------------------
(* Parsed configuration values (toml::Value, serde_json::Value): a number, *)
(* a string, or a table, which is the sequence of its (key, value) pairs   *)
(* in the order the map iterates them.                                     *)

\* every value has all four payloads, the ones its type does not use empty;
\* a string is the sequence of its characters
Value(type, int, float, str, pairs) ==
    [type |-> type, int |-> int, float |-> float, str |-> str, pairs |-> pairs]

Integer(i) == Value("integer", i, FromInt(0), <<>>, <<>>)
Float(x) == Value("float", 0, x, <<>>, <<>>)
String(s) == Value("string", 0, FromInt(0), s, <<>>)
\* a table is the sequence of its (key, value) pairs in the order it iterates
Table(pairs) == Value("table", 0, FromInt(0), <<>>, pairs)

is_table(v) == v.type = "table"
is_str(v) == v.type = "string"
\* v.is_integer() || v.is_float()
is_number(v) == v.type \in {"integer", "float"}

\* table.contains_key(key)
contains_key(table, key) == \E i \in 1..Len(table.pairs) : table.pairs[i][1] = key

\* table.get(key)
get(table, key) ==
    IF contains_key(table, key)
    THEN Some(table.pairs[CHOOSE i \in 1..Len(table.pairs) : table.pairs[i][1] = key][2])
    ELSE None

\* extract_toml_number: the number, or the panic of the third arm of the match
extract_toml_number(v) ==
    IF v.type = "float" THEN Ok(v.float)
    ELSE IF v.type = "integer" THEN Ok(FromInt(v.int))
    ELSE Panic

-----------------------------------------------------------------------------
(* MixedFertilizer: elements_composition is the HashMap<Element, f64>,     *)
(* keyed by element name.                                                  *)

MixedFertilizer(elements_composition, name, description) ==
    [elements_composition |-> elements_composition, name |-> name,
     description |-> description]

MacroElements(n, p2o5, k2o, mgo) ==
    [nitrogen_percentage |-> n, p2o5_percentage |-> p2o5, k2o_percentage |-> k2o,
     mgo_percentage |-> mgo]

\* x > f64::EPSILON: every positive value that occurs is a quotient of integers
\* below 2^31, hence above 2^-31 > 2^-52
ExceedsEpsilon(x) == Class(x) \in {"pos", "inf"} /\ ~Negative(x)

\* map.insert(key, value)
Insert(map, key, value) ==
    [k \in DOMAIN map \cup {key} |-> IF k = key THEN value ELSE map[k]]

\* an entry that keeps the last value instead of the sum
AddFraction_Overwrite(map, key, value) == Insert(map, key, SAdd(FromInt(0), value))

\* *map.entry(key).or_default() += value
AddFraction(map, key, value) ==
    IF key \in DOMAIN map
    THEN [map EXCEPT ![key] = SAdd(@, value)]
    ELSE Insert(map, key, SAdd(FromInt(0), value))

\* is_sane_elements: N, P, K and Mg are known, with the aliases P2O5, K2O and MgO
HasAlias(element, alias) ==
    /\ element \in DOMAIN KnownElements
    /\ \E i \in 1..Len(KnownElements[element].aliases) :
           KnownElements[element].aliases[i] = alias

is_sane_elements ==
    IF /\ <<"N">> \in DOMAIN KnownElements
       /\ HasAlias(<<"P">>, <<"P","2","O","5">>)
       /\ HasAlias(<<"K">>, <<"K","2","O">>)
       /\ HasAlias(<<"M","g">>, <<"M","g","O">>)
    THEN Ok(<<>>)
    ELSE Err("InvalidCatalogEntry", <<>>)

\* MacroElements::name_from_npk: the prefix and the percentages that are printed
name_from_npk(macros) ==
    IF ExceedsEpsilon(macros.mgo_percentage)
    THEN <<"NPK+Mg", macros.nitrogen_percentage, macros.p2o5_percentage,
           macros.k2o_percentage, macros.mgo_percentage>>
    ELSE <<"NPK", macros.nitrogen_percentage, macros.p2o5_percentage,
           macros.k2o_percentage>>

\* push_macro_elements: the nitrogen step
PushNitrogen(composition, macros) ==
    IF ExceedsEpsilon(macros.nitrogen_percentage)
    THEN Insert(composition, <<"N">>, FDiv(macros.nitrogen_percentage, FromInt(100)))
    ELSE composition

\* an insert of the oxide's percentage itself, as a fraction
InsertOxide_Unconverted(composition, element, rate, percentage) ==
    IF rate.status = "ok"
    THEN Ok(Insert(composition, element, FDiv(percentage, FromInt(100))))
    ELSE Panic

\* insert(element, rate.unwrap() * percentage / 100.0)
InsertOxide(composition, element, rate, percentage) ==
    IF rate.status = "ok"
    THEN Ok(Insert(composition, element,
                   Eval(rate.val, <<Times(percentage), Over(FromInt(100))>>)))
    ELSE Panic

\* push_macro_elements: the step of an element given as its oxide
PushOxide(composition, element, alias, percentage, checks) ==
    IF composition.status /= "ok" \/ ~ExceedsEpsilon(percentage) THEN composition
    ELSE InsertOxide(composition.val, element,
                     element_from_alias_rate(element, alias, checks), percentage)

\* MixedFertilizer::push_macro_elements on the composition
push_macro_elements(composition, macros, checks) ==
    PushOxide(
        PushOxide(
            PushOxide(Ok(PushNitrogen(composition, macros)),
                      <<"P">>, <<"P","2","O","5">>, macros.p2o5_percentage, checks),
            <<"K">>, <<"K","2","O">>, macros.k2o_percentage, checks),
        <<"M","g">>, <<"M","g","O">>, macros.mgo_percentage, checks)

\* Ok(res) with the composition filled in
Mixed(composition, name, description) ==
    IF composition.status = "ok"
    THEN Ok(MixedFertilizer(composition.val, name, description))
    ELSE composition

\* MixedFertilizer::new_from_npk
new_from_npk(macros, checks) ==
    IF is_sane_elements.status /= "ok" THEN is_sane_elements
    ELSE Mixed(push_macro_elements(<<>>, macros, checks), name_from_npk(macros), <<>>)

RECURSIVE AllCompounds(_, _, _)

\* the `all` closure after Compound::new(k): a panic aborts, an Err ends with false
AllParse(parsed, pairs, i, checks) ==
    IF parsed.status = "panic" THEN Panic
    ELSE IF parsed.status /= "ok" THEN Ok(FALSE)
    ELSE AllCompounds(pairs, i + 1, checks)

\* new_from_toml_object: the `all` over the compounds, which stops at the first
\* pair that is not (number, formula that parses)
AllCompounds(pairs, i, checks) ==
    IF i > Len(pairs) THEN Ok(TRUE)
    ELSE IF ~is_number(pairs[i][2]) THEN Ok(FALSE)
    ELSE AllParse(New(pairs[i][1], checks), pairs, i, checks)

\* is_percents: extract_toml_number(v) / 100.0, else extract_toml_number(v)
Portion(v, percents) ==
    IF extract_toml_number(v).status /= "ok" THEN Panic
    ELSE IF percents THEN Ok(SDiv(extract_toml_number(v).val, FromInt(100)))
    ELSE extract_toml_number(v)

\* the inner for_each: every significant element's concentration * portion is added
RECURSIVE AddPercentages(_, _, _, _)
AddPercentages(composition, percentages, k, portion) ==
    IF k > Len(percentages) THEN composition
    ELSE AddPercentages(
             IF is_insignificant(percentages[k].element) THEN composition
             ELSE AddFraction(composition, percentages[k].element,
                              SMul(percentages[k].concentration, portion)),
             percentages, k + 1, portion)

RECURSIVE Accumulate(_, _, _, _, _)

\* the outer for_each for one pair, from the pair's components_percentage on
AccumulateOne(composition, percentages, pairs, i, percents, checks) ==
    IF percentages.status /= "ok" \/ Portion(pairs[i][2], percents).status /= "ok"
    THEN Panic
    ELSE Accumulate(AddPercentages(composition, percentages.val, 1,
                                   Portion(pairs[i][2], percents).val),
                    pairs, i + 1, percents, checks)

\* compounds_portions.for_each(..): the pairs with a number, in map order
Accumulate(composition, pairs, i, percents, checks) ==
    IF i > Len(pairs) THEN Ok(composition)
    ELSE IF ~is_number(pairs[i][2])
    THEN Accumulate(composition, pairs, i + 1, percents, checks)
    ELSE AccumulateOne(composition,
                       components_percentage(New(pairs[i][1], checks).val, checks),
                       pairs, i, percents, checks)

\* obj.get("description"): as_str().unwrap_or(""), "" when absent (<<>>)
DescriptionOf(obj) ==
    IF contains_key(obj, "description") /\ is_str(get(obj, "description").val)
    THEN get(obj, "description").val.str
    ELSE <<>>

\* new_from_toml_object, from the `all` check on
FromCompounds(name, description, pairs, all, percents, checks) ==
    IF all.status /= "ok" THEN all
    ELSE IF ~all.val THEN Err("InvalidCatalogEntry", "incorrect compounds definition")
    ELSE Mixed(Accumulate(<<>>, pairs, 1, percents, checks), name, description)

\* MixedFertilizer::new_from_toml_object
new_from_toml_object(name, obj, percents, checks) ==
    IF ~is_table(obj)
    THEN Err("InvalidCatalogEntry", "expect input to be a toml object")
    ELSE IF ~contains_key(obj, "compounds")
    THEN Err("InvalidCatalogEntry", "no compounds object in a mix")
    ELSE IF ~is_table(get(obj, "compounds").val)
    THEN Err("InvalidCatalogEntry", "expect compounds to be an object")
    ELSE FromCompounds(name, DescriptionOf(obj), get(obj, "compounds").val.pairs,
                       AllCompounds(get(obj, "compounds").val.pairs, 1, checks),
                       percents, checks)

\* MixedFertilizer::new_from_json_object, the constructor load_db calls: the mix
\* constructor for a parsed JSON object, the portions read as the caller has them
new_from_json_object(name, obj, percents, checks) ==
    new_from_toml_object(name, obj, percents, checks)

\* <MixedFertilizer as Fertilizer>::components_percentage
mix_components_percentage(mixed, checks) ==
    SortedEntries(Collected(
        [e \in {x \in DOMAIN mixed.elements_composition : ~is_insignificant(x)} |->
            ElementConcentrations(e, mixed.elements_composition[e], checks)]))

\* fertilizer.components_percentage(..) on a &dyn Fertilizer
fertilizer_components_percentage(fertilizer, checks) ==
    IF "elements" \in DOMAIN fertilizer
    THEN components_percentage(fertilizer, checks)
    ELSE mix_components_percentage(fertilizer, checks)

-----------------------------------------------------------------------------
(* The dosing engine *)

DiluteResult(compound_dose, elements_dose) ==
    [compound_dose |-> compound_dose, elements_dose |-> elements_dose]

\* dilute_fertilizer
dilute_fertilizer(concentrations, mult) ==
    Sorted({[element |-> c.element,
             dose |-> FMul(c.concentration, mult),
             aliases |-> [i \in 1..Len(c.aliases) |->
                             [element_alias |-> c.aliases[i].element_alias,
                              dose |-> FMul(c.aliases[i].concentration, mult)]]] :
            c \in SeqRange(concentrations)})

\* a lookup that falls back to the first entry of the fertilizer
TargetConcentration_FirstEntry(req, concentrations) ==
    IF ~req.target_element.some \/
       \A i \in 1..Len(concentrations) :
           concentrations[i].element /= req.target_element.val
    THEN Ok(concentrations[1])
    ELSE Ok(concentrations[CHOOSE i \in 1..Len(concentrations) :
                concentrations[i].element = req.target_element.val])

\* the TargetDose lookup of both dilute methods: the fertilizer's entry for the
\* target element, or the error
TargetConcentration(req, concentrations) ==
    IF ~req.target_element.some THEN Err("NoTargetElement", <<>>)
    ELSE IF \A i \in 1..Len(concentrations) :
                concentrations[i].element /= req.target_element.val
         THEN Err("MissingTargetElement", req.target_element.val)
         ELSE Ok(concentrations[CHOOSE i \in 1..Len(concentrations) :
                     /\ concentrations[i].element = req.target_element.val
                     /\ \A j \in 1..(i - 1) :
                            concentrations[j].element /= req.target_element.val])

\* DryDosing::dilute: the TargetDose arm of `let mult = match self.what`
TargetMult(req, fert_elt) ==
    IF fert_elt.status = "ok"
    THEN Ok(FDiv(req.dilute_input, fert_elt.val.concentration))
    ELSE fert_elt

\* DryDosing::dilute: `let mult = match self.what`
DryMult(req, concentrations, eff) ==
    IF req.what = "ResultOfDose"
    THEN Ok(Eval(req.dilute_input, <<Times(FromInt(1000)), Over(eff)>>))
    ELSE TargetMult(req, TargetConcentration(req, concentrations))

\* DryDosing::dilute, from `let concentrations = dilute_fertilizer(..)` on
DryResult(concentrations, mult, eff) ==
    IF mult.status = "ok"
    THEN Ok(DiluteResult(Eval(mult.val, <<Times(eff), Over(FromInt(1000))>>),
                         dilute_fertilizer(concentrations, mult.val)))
    ELSE mult

\* DryDosing::dilute, from the concentrations on
DryDoses(req, concentrations, eff) ==
    IF concentrations.status = "ok"
    THEN DryResult(concentrations.val, DryMult(req, concentrations.val, eff), eff)
    ELSE concentrations

\* <DryDosing as DiluteMethod>::dilute
DryDilute(req, fertilizer, t, checks) ==
    DryDoses(req, fertilizer_components_percentage(fertilizer, checks),
             FromInt(effective_volume(t)))

\* SolutionDosing::dilute: the TargetDose arm of `let dose = match self.what`
TargetDose(req, fert_elt, eff) ==
    IF fert_elt.status = "ok"
    THEN Ok(Eval(req.dose, <<Times(eff), Over(fert_elt.val.concentration),
                             Times(req.container_volume),
                             Over(req.portion_volume), Over(FromInt(1000))>>))
    ELSE fert_elt

\* SolutionDosing::dilute: `let dose = match self.what`
SolutionDose(req, concentrations, eff) ==
    IF req.what = "ResultOfDose"
    THEN Ok(req.dose)
    ELSE TargetDose(req, TargetConcentration(req, concentrations), eff)

\* a multiplier that takes the whole container for the portion
SolutionMult_WholeContainer(req, dose, eff) ==
    Eval(dose, <<Times(FromInt(1000)), Over(eff)>>)

\* SolutionDosing::dilute: `let mult`
SolutionMult(req, dose, eff) ==
    Eval(dose, <<Times(FromInt(1000)), Over(req.container_volume),
                 Times(req.portion_volume), Over(eff)>>)

\* SolutionDosing::dilute, from `let mult` on
SolutionResult(req, concentrations, dose, eff) ==
    IF dose.status = "ok"
    THEN Ok(DiluteResult(dose.val,
                         dilute_fertilizer(concentrations,
                                           SolutionMult(req, dose.val, eff))))
    ELSE dose

\* SolutionDosing::dilute, from the concentrations on
SolutionDoses(req, concentrations, eff) ==
    IF concentrations.status = "ok"
    THEN SolutionResult(req, concentrations.val,
                        SolutionDose(req, concentrations.val, eff), eff)
    ELSE concentrations

\* <SolutionDosing as DiluteMethod>::dilute
SolutionDilute(req, fertilizer, t, checks) ==
    SolutionDoses(req, fertilizer_components_percentage(fertilizer, checks),
                  FromInt(effective_volume(t)))

\* dosing_data.dilute(..) on either dosing method
Dilute(req, fertilizer, t, checks) ==
    IF req.kind = "Dry" THEN DryDilute(req, fertilizer, t, checks)
    ELSE SolutionDilute(req, fertilizer, t, checks)

-----------------------------------------------------------------------------
(* The formulas handed to Compound::new *)

MaxLen == 4

Alphabet == {"N", "a", "0", "2", "(", ")", "*", "-"}

Strings(n) == UNION {[1..k -> Alphabet] : k \in 0..n}

\* the formulas of the repository's tests and documentation
Examples ==
    { <<"K","N","O","3">>, <<"K","H","2","P","O","4">>, <<"K","2","H","1","0","0">>,
      <<"K">>, <<"N","H","4","N","O","3">>,
      <<"C","a","(","N","O","3",")","2">>,
      <<"(","C","a",")","(","N","O","3",")","2">>,
      <<"(","C","a",")","1","(","N","O","3",")","2">>,
      <<"(","(","(","C","a",")",")",")">>,
      <<"(","(","(","C","a",")",")",")","2">>,
      <<"2","K","O">>, <<"O","l","o","l","o">>,
      <<"(","(","(","C","a","(","(","(">>, <<"(","2",")">>,
      <<"C","u","S","O","4","*","5","H","2","O">> }

\* X(G)n, (X), (X)1, ((X)), N(X)2N for short X and G
GroupBases == { <<"N">>, <<"N","a","2">>, <<"K","2","O">>, <<"N","(","O",")","2">> }
GroupFormulas ==
    UNION {{ <<"(">> \o x \o <<")">>,
             <<"(">> \o x \o <<")","1">>,
             <<"(","(">> \o x \o <<")",")">>,
             <<"(","(">> \o x \o <<")",")","2">>,
             <<"(","(","(">> \o x \o <<")",")",")","3">>,
             <<"N">> \o x \o <<"(">> \o x \o <<")","2","N">> } : x \in GroupBases}

\* X*nH2O
HydrateBases == { <<"K">>, <<"N","a","2">>, <<"C","a","(","N","O","3",")","2">>,
                  <<"M","g","S","O","4">> }
HydrateFormulas ==
    {x \o <<"*">> \o n \o <<"H","2","O">> :
        x \in HydrateBases, n \in {<<>>, <<"2">>, <<"7">>}}

\* sequences of at most MaxItems catalog symbols, each with an optional literal
MaxItems == 3
Symbols == { <<"K">>, <<"N">>, <<"C","a">>, <<"O">> }
Literals == { <<>>, <<"2">>, <<"1","0">> }
Items == {s \o n : s \in Symbols, n \in Literals}

RECURSIVE ItemSeqs(_)
ItemSeqs(n) ==
    IF n = 0 THEN {<<>>}
    ELSE LET shorter == ItemSeqs(n - 1)
         IN  shorter \cup {x \o y : x \in shorter, y \in Items}

\* formulas with characters outside ASCII: a lowercase letter after a symbol
\* and as the whole hydrate, and characters of several bytes before a '*'
UnicodeFormulas ==
    { <<"N", SmallEAcute>>, <<"N", "*", SmallEAcute>>,
      <<"K", MiddleDot, "*", "N", "2">>, <<EuroSign, "*", "K", "N">>,
      <<"K", SmallEAcute, "*", "2", "N">> }

Formulas ==
    Strings(MaxLen) \cup ItemSeqs(MaxItems) \cup Examples \cup GroupFormulas
        \cup HydrateFormulas \cup UnicodeFormulas

-----------------------------------------------------------------------------
(* The fertilizers, tanks and requests handed to the dosing engine *)

Fertilizers ==
    { <<"K","N","O","3">>,
      <<"C","a","(","N","O","3",")","2">>,
      <<"K","H","2","P","O","4">>,
      <<"M","g","S","O","4","*","7","H","2","O">>,
      <<"K","2","S","O","4"," ">>,
      <<"O","l","o","l","o">> }

Tank(vol, absolute) == [volume |-> vol, absolute |-> absolute]

\* Tank::new_from_toml / new_from_json: `absolute` is false when the field is absent
new_from_toml(input) ==
    Tank(input.volume, IF input.absolute.some THEN input.absolute.val ELSE FALSE)

\* litres: 0 and 1 have an effective volume of 0 with the 0.85 correction
TankVolumes == {0, 1, 100, 200}

\* the tank descriptions: a literal volume or linear dimensions, `absolute` optional
TankInputs ==
    {Tank(Left(FromInt(v)), None) : v \in TankVolumes}
        \cup {Tank(Left(FromInt(200)), Some(a)) : a \in BOOLEAN}
        \cup {Tank(Left(Rat(5, 2)), None)}
        \cup {Tank(Right(LinearDimensions(FromInt(9), FromInt(5), FromInt(5))), a) :
                 a \in {None, Some(TRUE)}}
        \cup {Tank(Right(LinearDimensions(Rat(29, 100), FromInt(100), FromInt(1))), a) :
                 a \in {None, Some(TRUE)}}

Tanks == {new_from_toml(input) : input \in TankInputs}

MaxDose == 1

\* grams of dry fertilizer
DryAmounts == {FromInt(k) : k \in 0..MaxDose} \cup {Rat(1, 2)}
\* grams dissolved in the container, or a target in mg/l
SolutionAmounts == {FromInt(10 * k) : k \in 0..MaxDose}
\* millilitres
ContainerVolumes == {FromInt(0), FromInt(1000), FromInt(2000)}
PortionVolumes == {FromInt(0), FromInt(20), FromInt(100)}

Targets == {None, Some(<<"N">>), Some(<<"K">>), Some(<<"M","g">>), Some(<<"N","O","3">>)}

DryDosing(dilute_input, what, target_element) ==
    [kind |-> "Dry", dilute_input |-> dilute_input, what |-> what,
     target_element |-> target_element]

SolutionDosing(container_volume, portion_volume, dose, what, target_element) ==
    [kind |-> "Solution", container_volume |-> container_volume,
     portion_volume |-> portion_volume, dose |-> dose, what |-> what,
     target_element |-> target_element]

\* a ResultOfDose request may carry a target element all the same
UnusedTargets == {None, Some(<<"M","g">>)}

Requests ==
    {DryDosing(a, "ResultOfDose", e) : a \in DryAmounts, e \in UnusedTargets}
        \cup {DryDosing(a, "TargetDose", e) : a \in SolutionAmounts, e \in Targets}
        \cup {SolutionDosing(c, p, a, "ResultOfDose", e) :
                 c \in ContainerVolumes, p \in PortionVolumes, a \in SolutionAmounts,
                 e \in UnusedTargets}
        \cup {SolutionDosing(c, p, a, "TargetDose", e) :
                 c \in ContainerVolumes, p \in PortionVolumes, a \in SolutionAmounts,
                 e \in Targets}

-----------------------------------------------------------------------------
(* The scan of Compound::new as a state machine: one action per branch *)

Idle == [status |-> "idle"]

InitParse(formulas) ==
    /\ formula \in formulas
    /\ overflow_checks \in BOOLEAN
    /\ pos = 1
    /\ scan = NewLocals(formula)
    /\ flushed = {}
    /\ result = Pending

Apply(b) ==
    /\ scan' = b.scan
    /\ result' = b.res
    /\ flushed' = IF b.looked_up.some THEN flushed \cup {b.looked_up.val} ELSE flushed
    /\ pos' = pos + 1
    /\ UNCHANGED <<formula, overflow_checks, doseVars, infoVars, mixVars, dbVars,
                   webVars>>

Scanning == result.status = "pending" /\ pos <= Len(formula)
chr == formula[pos]
rest == SliceFrom(formula, pos)

ScanNested ==
    /\ Scanning /\ scan.obraces > 0
    /\ Apply(BranchNested(scan, chr, overflow_checks))

ScanUppercase ==
    /\ Scanning /\ scan.obraces = 0 /\ chr \in AsciiUppercase
    /\ Apply(BranchUppercase(scan, chr, overflow_checks))

ScanLowercase ==
    /\ Scanning /\ scan.obraces = 0 /\ chr \in Lowercase
    /\ Apply(BranchLowercase(scan, chr))

ScanDigit ==
    /\ Scanning /\ scan.obraces = 0 /\ chr \in AsciiDigit
    /\ Apply(BranchDigit(scan, chr))

ScanOpen ==
    /\ Scanning /\ scan.obraces = 0 /\ chr = "("
    /\ Apply(BranchOpen(scan, overflow_checks))

ScanHydrate ==
    /\ Scanning /\ scan.obraces = 0 /\ chr = "*"
    /\ Apply(BranchHydrate(scan, rest, overflow_checks))

ScanGarbage ==
    /\ Scanning /\ scan.obraces = 0
    /\ chr \notin AsciiUppercase \cup Lowercase \cup AsciiDigit \cup {"(", "*"}
    /\ Apply(BranchGarbage(scan))

EndOfScan ==
    /\ result.status = "pending" /\ pos > Len(formula)
    /\ Apply(Finish(scan, overflow_checks))

\* nothing is asked about the fertilizer
NoInfo == info = Idle /\ fraction = Idle
\* no mix is built
NoMix == mix_input = Idle /\ is_percents = FALSE /\ mix = Idle
\* no catalog is loaded
NoDb ==
    /\ db_input = Idle /\ db_pos = 1 /\ known_fertilizers = <<>> /\ loaded = Idle
    /\ db_before = <<>> /\ db_loads = 0

NoWeb == handlers = <<>> /\ locks = Idle /\ services = {}

Init ==
    /\ InitParse(Formulas)
    /\ tank = Idle /\ request = Idle /\ outcome = Idle
    /\ NoInfo /\ NoMix /\ NoDb /\ NoWeb

Next ==
    \/ ScanNested
    \/ ScanUppercase
    \/ ScanLowercase
    \/ ScanDigit
    \/ ScanOpen
    \/ ScanHydrate
    \/ ScanGarbage
    \/ EndOfScan

Spec == Init /\ [][Next]_vars

\* the call has returned
Returned == result.status \in {"ok", "err", "panic"}

-----------------------------------------------------------------------------
(* A calculation: the fertilizer formula is parsed, then the request's     *)
(* dilute method runs on the compound and the tank.                        *)

InitDose ==
    /\ InitParse(Fertilizers)
    /\ tank \in Tanks
    /\ request \in Requests
    /\ outcome = Pending
    /\ NoInfo /\ NoMix /\ NoDb /\ NoWeb

DryDosingDilute ==
    /\ result.status = "ok"
    /\ outcome = Pending
    /\ request.kind = "Dry"
    /\ outcome' = DryDilute(request, result.val, tank, overflow_checks)
    /\ UNCHANGED <<parseVars, tank, request, infoVars, mixVars, dbVars, webVars>>

SolutionDosingDilute ==
    /\ result.status = "ok"
    /\ outcome = Pending
    /\ request.kind = "Solution"
    /\ outcome' = SolutionDilute(request, result.val, tank, overflow_checks)
    /\ UNCHANGED <<parseVars, tank, request, infoVars, mixVars, dbVars, webVars>>

NextDose ==
    \/ Next
    \/ DryDosingDilute
    \/ SolutionDosingDilute

SpecDose == InitDose /\ [][NextDose]_vars

-----------------------------------------------------------------------------
(* A query about a formula: it is parsed, then either the composition of   *)
(* the compound is listed or the fraction of one element is asked for.     *)

InitInfo ==
    /\ InitParse(Formulas)
    /\ tank = Idle /\ request = Idle /\ outcome = Idle
    /\ info = Pending /\ fraction = Pending
    /\ NoMix /\ NoDb /\ NoWeb

Unasked == info = Pending /\ fraction = Pending

\* fertilizer_info for a name that is not in the catalog: the formula's composition
FertilizerInfo ==
    /\ result.status = "ok" /\ Unasked
    /\ info' = components_percentage(result.val, overflow_checks)
    /\ UNCHANGED <<parseVars, doseVars, fraction, mixVars, dbVars, webVars>>

\* compound.element_fraction(element) for an element of the catalog
ElementFraction ==
    /\ result.status = "ok" /\ Unasked
    /\ \E element \in DOMAIN KnownElements :
           fraction' = [element |-> element, val |-> element_fraction(result.val, element)]
    /\ UNCHANGED <<parseVars, doseVars, info, mixVars, dbVars, webVars>>

NextInfo ==
    \/ Next
    \/ FertilizerInfo
    \/ ElementFraction

SpecInfo == InitInfo /\ [][NextInfo]_vars

-----------------------------------------------------------------------------
(* The figure of one alias: the element catalog is read from a file whose  *)
(* alias lists are not validated (KnownElements::new_with_string), so the  *)
(* closure that components_percentage applies to each alias of an element  *)
(* is applied here to the aliases a catalog file may give.                 *)

\* aliases = [..] of an element in the catalog file: a sound oxide, a
\* formula without the element, a token that is no formula, and formulas
\* with a literal 0
ConfiguredAliases ==
    { <<"K","2","O">>, <<"N","O","3">>, <<"X","x">>, <<"K","0">>, <<"(","N",")","0">> }

\* |alias| ElementConcentrationAlias { .., concentration: percentage * rate.unwrap() }
AliasFigure(element, alias, percentage, checks) ==
    ElementConcentrationAlias(alias, percentage,
                              unwrap(element_to_alias_rate(element, alias, checks)))

\* the closure applied to an alias of an element of the compound that the
\* filter of components_percentage has let through
AliasOfElement ==
    /\ fraction /= Pending /\ fraction.val.some /\ info = Pending
    /\ ~is_insignificant(fraction.element)
    /\ \E alias \in ConfiguredAliases :
           info' = [element_alias |-> alias,
                    figure |-> AliasFigure(fraction.element, alias, fraction.val.val,
                                           overflow_checks)]
    /\ UNCHANGED <<parseVars, doseVars, fraction, mixVars, dbVars, webVars>>

NextAlias ==
    \/ Next
    \/ ElementFraction
    \/ AliasOfElement

SpecAlias == InitInfo /\ [][NextAlias]_vars

-----------------------------------------------------------------------------
(* The building of a mixed fertilizer: from the four macro percentages or  *)
(* from a table of compounds, then the composition of the mix is listed.   *)

NoParse ==
    /\ formula = <<>> /\ pos = 1 /\ scan = NewLocals(<<>>)
    /\ flushed = {} /\ result = Idle

\* the percentages of the declarations in the tests of mix.rs, and zero
NitrogenPercentages == {FromInt(0), FromInt(11), FromInt(24)}
P2O5Percentages == {FromInt(0), FromInt(8), FromInt(9)}
K2OPercentages == {FromInt(0), FromInt(16), FromInt(30)}
MgOPercentages == {FromInt(0), Rat(5, 2)}

MacroInputs ==
    {MacroElements(n, p, k, mg) :
        n \in NitrogenPercentages, p \in P2O5Percentages,
        k \in K2OPercentages, mg \in MgOPercentages}

\* the most compounds of a mix
MaxCompounds == 2

\* the keys of a compounds table in the order the map iterates them: formulas
\* that parse (two that share an element, one of insignificant elements only),
\* a name the catalog does not have, a zero count and an unclosed parenthesis
CompoundKeys ==
    << <<"(","C","u">>, <<"C","u">>, <<"C","u","N","a">>, <<"K","0">>,
       <<"K","N","O","3">>, <<"O">>, <<"X","x">> >>

\* portions: an integer, a float, and a value that is not a number
PortionValues == {Integer(50), Float(Rat(5, 2)), String(<<"h","a","l","f">>)}

\* the tables of at most MaxCompounds compounds, keys ascending
RECURSIVE CompoundTables(_)
CompoundTables(len) ==
    IF len = 0 THEN {<<>>}
    ELSE LET shorter == CompoundTables(len - 1)
         IN  shorter \cup
             {Append(pairs, <<CompoundKeys[k], v>>) :
                 pairs \in {p \in shorter : Len(p) = len - 1},
                 k \in 1..Len(CompoundKeys), v \in PortionValues}

Ascending(pairs) ==
    \A i \in 1..Len(pairs) - 1 :
        \E a, b \in 1..Len(CompoundKeys) :
            a < b /\ pairs[i][1] = CompoundKeys[a] /\ pairs[i + 1][1] = CompoundKeys[b]

CompoundsTables == {Table(pairs) : pairs \in {p \in CompoundTables(MaxCompounds) : Ascending(p)}}

\* the objects handed to the mix constructor: with a compounds table, with and
\* without a description, without compounds, with compounds that are not a
\* table, and a value that is not a table
MixObjects ==
    {Table(<<<<"compounds", c>>>>) : c \in CompoundsTables} \cup
    {Table(<<<<"compounds", Table(<<<<<<"K","N","O","3">>, Integer(50)>>>>)>>,
             <<"description", d>>>>) : d \in {String(<<"K","N","O","3">>), Integer(50)}} \cup
    {Table(<<<<"description", String(<<"n","o","n","e">>)>>>>),
     Table(<<<<"compounds", Integer(50)>>>>),
     String(<<"m","i","x">>)}

MixInputs ==
    {[kind |-> "npk", macros |-> m] : m \in MacroInputs} \cup
    {[kind |-> "toml", name |-> "mix", obj |-> o] : o \in MixObjects}

InitMix ==
    /\ NoParse
    /\ overflow_checks \in BOOLEAN
    /\ tank = Idle /\ request = Idle /\ outcome = Idle
    /\ info = Pending /\ fraction = Idle
    /\ mix_input \in MixInputs
    /\ is_percents \in BOOLEAN
    /\ mix = Pending
    /\ NoDb /\ NoWeb

\* MixedFertilizer::new_from_npk(&macros, &known_elements)
NewFromNpk ==
    /\ mix = Pending /\ mix_input.kind = "npk"
    /\ mix' = new_from_npk(mix_input.macros, overflow_checks)
    /\ UNCHANGED <<parseVars, doseVars, infoVars, mix_input, is_percents, dbVars,
                   webVars>>

\* MixedFertilizer::new_from_toml_object(name, &obj, &known_elements, is_percents)
NewFromTomlObject ==
    /\ mix = Pending /\ mix_input.kind = "toml"
    /\ mix' = new_from_toml_object(mix_input.name, mix_input.obj, is_percents,
                                   overflow_checks)
    /\ UNCHANGED <<parseVars, doseVars, infoVars, mix_input, is_percents, dbVars,
                   webVars>>

\* fert.components_percentage(&known_elements) on the mix that was built
MixInfo ==
    /\ mix.status = "ok" /\ info = Pending
    /\ info' = mix_components_percentage(mix.val, overflow_checks)
    /\ UNCHANGED <<parseVars, doseVars, fraction, mixVars, dbVars, webVars>>

NextMix ==
    \/ NewFromNpk
    \/ NewFromTomlObject
    \/ MixInfo

SpecMix == InitMix /\ [][NextMix]_vars

-----------------------------------------------------------------------------
(* Declarations with numbers below zero: a toml integer or float may be    *)
(* negative, and so may a macro percentage.                                *)

SignedPortions == {Integer(50), Integer(0 - 50), Float(Signed(TRUE, Rat(5, 2)))}

RECURSIVE SignedTables(_)
SignedTables(len) ==
    IF len = 0 THEN {<<>>}
    ELSE LET shorter == SignedTables(len - 1)
         IN  shorter \cup
             {Append(pairs, <<CompoundKeys[k], v>>) :
                 pairs \in {p \in shorter : Len(p) = len - 1},
                 k \in 1..Len(CompoundKeys), v \in SignedPortions}

SignedMacros ==
    {MacroElements(n, FromInt(8), k, FromInt(0)) :
        n \in {FromInt(11), FromInt(0 - 11)}, k \in {FromInt(16), FromInt(0 - 16)}}

SignedInputs ==
    {[kind |-> "npk", macros |-> m] : m \in SignedMacros} \cup
    {[kind |-> "toml", name |-> "mix", obj |-> Table(<<<<"compounds", Table(pairs)>>>>)] :
        pairs \in {p \in SignedTables(MaxCompounds) : Ascending(p)}}

InitSigned ==
    /\ NoParse
    /\ overflow_checks \in BOOLEAN
    /\ tank = Idle /\ request = Idle /\ outcome = Idle
    /\ NoInfo
    /\ mix_input \in SignedInputs
    /\ is_percents \in BOOLEAN
    /\ mix = Pending
    /\ NoDb /\ NoWeb

NextSigned ==
    \/ NewFromNpk
    \/ NewFromTomlObject

SpecSigned == InitSigned /\ [][NextSigned]_vars

-----------------------------------------------------------------------------
(* The catalog of fertilizers: load_db walks the entries of the parsed     *)
(* text and stores a fertilizer per entry; afterwards the web handlers     *)
(* list the composition of a stored fertilizer or dose it in a tank.       *)

\* the most entries of a catalog text
MaxEntries == 2

\* the names of the entries, in the order the map iterates them
EntryNames == << <<"a">>, <<"b">>, <<"c">> >>

MixOf(pairs) == Table(<<<<"compounds", Table(pairs)>>>>)
FormulaOf(value) == Table(<<<<"formula", value>>>>)

\* the entries: formulas that parse, one the catalog does not know, one with a
\* zero count, one that is not a string; mixes that build and one that does
\* not; an entry with both keys; entries with neither key; an entry that is
\* not an object
EntryObjects ==
    {FormulaOf(String(<<"K","N","O","3">>)),
     FormulaOf(String(<<"C","u","N","a">>)),
     FormulaOf(String(<<"X","x">>)),
     FormulaOf(String(<<"K","0">>)),
     FormulaOf(Integer(1)),
     MixOf(<< << <<"C","u">>, Integer(1)>>, << <<"C","u","N","a">>, Integer(1)>> >>),
     MixOf(<< << <<"K">>, Integer(1)>>, << <<"N">>, Integer(1)>>, << <<"O">>, Integer(1)>> >>),
     MixOf(<< << <<"X","x">>, Integer(1)>> >>),
     Table(<< <<"compounds", Table(<< << <<"N","a">>, Integer(1)>> >>)>>,
              <<"formula", String(<<"K","N","O","3">>)>> >>),
     Table(<< <<"description", String(<<"n","o","n","e">>)>> >>),
     Table(<<>>),
     String(<<"K","N","O","3">>)}

RECURSIVE Catalogs(_)
\* the catalogs of `len` entries, named in order
Catalogs(len) ==
    IF len = 0 THEN {<<>>}
    ELSE {Append(entries, <<EntryNames[len], obj>>) :
             entries \in Catalogs(len - 1), obj \in EntryObjects}

\* serde_json::from_str(input): a text that is no JSON, a value that is no
\* object, and the objects of at most MaxEntries entries
DbInputs ==
    {Err("InvalidCatalogEntry", "not JSON"), Ok(String(<<"K","N","O","3">>))} \cup
    {Ok(Table(entries)) : entries \in UNION {Catalogs(len) : len \in 0..MaxEntries}}

InitDb ==
    /\ NoParse
    /\ overflow_checks \in BOOLEAN
    /\ tank = Idle /\ request = Idle /\ outcome = Pending
    /\ info = Pending /\ fraction = Idle
    /\ mix_input = Idle /\ mix = Idle
    /\ is_percents \in BOOLEAN
    /\ db_input \in DbInputs
    /\ db_pos = 1
    /\ known_fertilizers = <<>>
    /\ loaded = Pending
    /\ db_before = <<>>
    /\ db_loads = 1
    /\ NoWeb

\* the text is no JSON, or the value it parses to is no object
NoObject == IF db_input.status = "ok" THEN ~is_table(db_input.val) ELSE TRUE

\* load_db: `?` on serde_json::from_str, and the is_object test
LoadRejected ==
    /\ loaded = Pending
    /\ NoObject
    /\ loaded' = IF db_input.status /= "ok" THEN db_input
                 ELSE Err("InvalidCatalogEntry", "known fertilizers must be an object")
    /\ UNCHANGED <<parseVars, doseVars, infoVars, mixVars, db_input, db_before, db_loads, db_pos,
                   known_fertilizers, webVars>>

\* the for loop is at an entry
Loading ==
    /\ loaded = Pending
    /\ db_input.status = "ok" /\ is_table(db_input.val)
    /\ db_pos <= Len(db_input.val.pairs)

EntryName == db_input.val.pairs[db_pos][1]
EntryObj == db_input.val.pairs[db_pos][2]

\* `?` on the fertilizer built, then known_fertilizers.insert(name.clone(), ..)
Store(built) ==
    IF built.status = "ok"
    THEN /\ known_fertilizers' = Insert(known_fertilizers, EntryName, built.val)
         /\ db_pos' = db_pos + 1
         /\ UNCHANGED loaded
    ELSE /\ loaded' = built
         /\ UNCHANGED <<known_fertilizers, db_pos, webVars>>

\* load_db: if !obj.is_object() { return Err(..) }
LoadNotObject ==
    /\ Loading /\ ~is_table(EntryObj)
    /\ loaded' = Err("InvalidCatalogEntry", "fertilizer is not an object")
    /\ UNCHANGED <<parseVars, doseVars, infoVars, mixVars, db_input, db_before, db_loads, db_pos,
                   known_fertilizers, webVars>>

\* load_db: if fert_obj.contains_key("compounds")
LoadMix ==
    /\ Loading /\ is_table(EntryObj) /\ contains_key(EntryObj, "compounds")
    /\ Store(new_from_json_object(EntryName, EntryObj, is_percents, overflow_checks))
    /\ UNCHANGED <<parseVars, doseVars, infoVars, mixVars, db_input, db_before, db_loads,
                   webVars>>

\* the formula of an entry: as_str().ok_or(..)?, then Compound::new(formula, ..)
FormulaCompound(value, checks) ==
    IF ~is_str(value) THEN Err("InvalidCatalogEntry", "formula must be string")
    ELSE New(value.str, checks)

\* load_db: else if fert_obj.contains_key("formula")
LoadFormula ==
    /\ Loading /\ is_table(EntryObj)
    /\ ~contains_key(EntryObj, "compounds") /\ contains_key(EntryObj, "formula")
    /\ Store(FormulaCompound(get(EntryObj, "formula").val, overflow_checks))
    /\ UNCHANGED <<parseVars, doseVars, infoVars, mixVars, db_input, db_before, db_loads,
                   webVars>>

\* load_db: an entry with neither key: no branch is taken, the loop goes on
LoadNeither ==
    /\ Loading /\ is_table(EntryObj)
    /\ ~contains_key(EntryObj, "compounds") /\ ~contains_key(EntryObj, "formula")
    /\ db_pos' = db_pos + 1
    /\ UNCHANGED <<parseVars, doseVars, infoVars, mixVars, db_input, db_before, db_loads,
                   known_fertilizers, loaded, webVars>>

\* load_db: Ok(()) after the last entry
LoadDone ==
    /\ loaded = Pending
    /\ db_input.status = "ok" /\ is_table(db_input.val)
    /\ db_pos > Len(db_input.val.pairs)
    /\ loaded' = Ok(<<>>)
    /\ UNCHANGED <<parseVars, doseVars, infoVars, mixVars, db_input, db_before, db_loads, db_pos,
                   known_fertilizers, webVars>>

\* load_db has returned
Loaded == loaded.status \in {"ok", "err", "panic"}

\* the most calls of load_db
MaxLoads == 2

\* the extra databases main loads after the first: an entry that redefines a
\* name, an entry with neither key under a name, a sound entry followed by one
\* that fails, and a mix under another name
LaterInputs ==
    {Ok(Table(<< <<EntryNames[1], FormulaOf(String(<<"C","u","N","a">>))>> >>)),
     Ok(Table(<< <<EntryNames[1], Table(<<>>)>> >>)),
     Ok(Table(<< <<EntryNames[2], FormulaOf(String(<<"K","N","O","3">>))>>,
                 <<EntryNames[3], FormulaOf(String(<<"X","x">>))>> >>)),
     Ok(Table(<< <<EntryNames[2], MixOf(<< << <<"N","a">>, Integer(1)>> >>)>> >>))}

\* no request has been served yet
Unserved == info = Pending /\ outcome = Pending

\* fertilizer_info for a name of the catalog; `formula` is the name asked for
KnownInfo ==
    /\ Loaded /\ Unserved
    /\ \E name \in DOMAIN known_fertilizers :
           /\ formula' = name
           /\ info' = fertilizer_components_percentage(known_fertilizers[name],
                                                       overflow_checks)
    /\ UNCHANGED <<overflow_checks, pos, scan, flushed, result, doseVars, fraction,
                   mixVars, dbVars, webVars>>

\* the tank of the tests and one whose volume is taken as it is
CalcTanks ==
    {new_from_toml(Tank(Left(FromInt(200)), a)) : a \in {None, Some(TRUE)}}

\* the dosing data of the calculations on the catalog
CalcRequests ==
    {DryDosing(FromInt(1), "ResultOfDose", None),
     DryDosing(FromInt(10), "TargetDose", Some(<<"N">>)),
     DryDosing(FromInt(10), "TargetDose", Some(<<"N","a">>)),
     SolutionDosing(FromInt(1000), FromInt(20), FromInt(10), "ResultOfDose", None),
     SolutionDosing(FromInt(1000), FromInt(20), FromInt(10), "TargetDose", Some(<<"K">>))}

\* calc for a fertilizer of the catalog; `formula` is data.fertilizer
CalcKnown ==
    /\ Loaded /\ Unserved
    /\ \E name \in DOMAIN known_fertilizers, req \in CalcRequests, t \in CalcTanks :
           /\ formula' = name
           /\ request' = req
           /\ tank' = t
           /\ outcome' = Dilute(req, known_fertilizers[name], t, overflow_checks)
    /\ UNCHANGED <<overflow_checks, pos, scan, flushed, result, infoVars, mixVars,
                   dbVars, webVars>>

\* main: the next fertilizers_db.load_db(..)?, reached when the one before is Ok
LoadAgain ==
    /\ loaded.status = "ok" /\ db_loads < MaxLoads
    /\ info = Pending /\ outcome = Pending
    /\ db_input' \in LaterInputs
    /\ db_pos' = 1
    /\ loaded' = Pending
    /\ db_before' = known_fertilizers
    /\ db_loads' = db_loads + 1
    /\ UNCHANGED <<parseVars, doseVars, infoVars, mixVars, known_fertilizers, webVars>>

NextDb ==
    \/ LoadAgain
    \/ LoadRejected
    \/ LoadNotObject
    \/ LoadMix
    \/ LoadFormula
    \/ LoadNeither
    \/ LoadDone
    \/ KnownInfo
    \/ CalcKnown

SpecDb == InitDb /\ [][NextDb]_vars

-----------------------------------------------------------------------------
(* The web service: every request is handled by a handler that locks the   *)
(* fertilizer catalog, then (fertilizer_info, calc) the element catalog,   *)
(* computes its answer and drops the guards when it returns.  A handler    *)
(* that panics unwinds: its guards are dropped and their mutexes poisoned, *)
(* and lock().unwrap() on a poisoned mutex panics.                         *)

\* the most requests in flight
MaxClients == 2

Clients == 1..MaxClients

\* <Compound as Fertilizer>::description, and the field of a mix
description(fertilizer) ==
    IF "elements" \in DOMAIN fertilizer
    THEN <<"Compound: ", fertilizer.name>>
    ELSE fertilizer.description

\* list_db: the (name, description) pairs of the catalog
list_db(db) == Ok({<<name, description(db[name])>> : name \in DOMAIN db})

\* fertilizer_info: a name that is not in the catalog, after Compound::new(name)
InfoOfCompound(maybe_compound, checks) ==
    IF maybe_compound.status = "panic" THEN Panic
    ELSE IF maybe_compound.status /= "ok" THEN Err("NotFound", <<>>)
    ELSE components_percentage(maybe_compound.val, checks)

\* fertilizer_info
fertilizer_info(name, db, checks) ==
    IF name \in DOMAIN db
    THEN fertilizer_components_percentage(db[name], checks)
    ELSE InfoOfCompound(New(name, checks), checks)

CalcData(t, fertilizer, dosing_data) ==
    [tank |-> t, fertilizer |-> fertilizer, dosing_data |-> dosing_data]

\* calc: a name that is not in the catalog, after Compound::new(data.fertilizer)
CalcOfCompound(maybe_compound, data, checks) ==
    IF maybe_compound.status /= "ok" THEN maybe_compound
    ELSE Dilute(data.dosing_data, maybe_compound.val, data.tank, checks)

\* calc
calc(data, db, checks) ==
    IF data.fertilizer \in DOMAIN db
    THEN Dilute(data.dosing_data, db[data.fertilizer], data.tank, checks)
    ELSE CalcOfCompound(New(data.fertilizer, checks), data, checks)

\* what the handler of a request computes once it has its guards
Handle(req, db, checks) ==
    IF req.kind = "list" THEN list_db(db)
    ELSE IF req.kind = "info" THEN fertilizer_info(req.name, db, checks)
    ELSE calc(req.data, db, checks)

\* the catalog of the service: a compound and a mix
WebCatalog ==
    (EntryNames[1] :> Compound((<<"K">> :> 1) @@ (<<"N">> :> 1) @@ (<<"O">> :> 3),
                               <<"K","N","O","3">>)) @@
    (EntryNames[2] :> MixedFertilizer((<<"N","a">> :> FromInt(1)), EntryNames[2], <<>>))

\* the names asked for: one of the catalog, a formula, a name that is neither,
\* and a formula with a literal 0 count
WebNames == {EntryNames[1], <<"K","N","O","3">>, <<"X","x">>, <<"K","0">>}

SampleTank == new_from_toml(Tank(Left(FromInt(200)), Some(FALSE)))

WebRequests ==
    {[kind |-> "list"]} \cup
    {[kind |-> "info", name |-> name] : name \in WebNames} \cup
    {[kind |-> "calc", data |-> CalcData(SampleTank, name,
                                         DryDosing(FromInt(1), "ResultOfDose", None))] :
        name \in {EntryNames[2], <<"K","0">>}} \cup
    {[kind |-> "calc", data |-> CalcData(SampleTank, <<"K","N","O","3">>,
                                         DryDosing(FromInt(10), "TargetDose",
                                                   Some(<<"M","g">>)))]}

\* the Apps that are served: the one run_server builds, which registers
\* list_db and fertilizer_info, and those of the tests, with one handler each
Applications == {{"list", "info"}, {"list"}, {"info"}, {"calc"}}

\* Mutex::new(..): not held (holder 0), not poisoned
Unlocked == [holder |-> 0, poisoned |-> FALSE]

Waiting == [pc |-> "idle", request |-> Idle, response |-> Pending]

InitWeb ==
    /\ NoParse
    /\ overflow_checks \in BOOLEAN
    /\ tank = Idle /\ request = Idle /\ outcome = Idle
    /\ NoInfo /\ NoMix
    /\ db_input = Idle /\ db_pos = 1 /\ loaded = Ok(<<>>)
    /\ db_before = <<>> /\ db_loads = 1
    /\ known_fertilizers = WebCatalog
    /\ handlers = [c \in Clients |-> Waiting]
    /\ locks = [db |-> Unlocked, elts |-> Unlocked]
    /\ services \in Applications

\* a handler that gives back the element catalog only
Dropped_KeepsDb(l, c) ==
    [m \in DOMAIN l |-> IF l[m].holder = c /\ m = "elts"
                        THEN [l[m] EXCEPT !.holder = 0] ELSE l[m]]

\* the guards of a handler are dropped
Dropped(l, c) ==
    [m \in DOMAIN l |-> IF l[m].holder = c THEN [l[m] EXCEPT !.holder = 0] ELSE l[m]]

\* the guards of a handler are dropped while it panics: their mutexes are poisoned
Unwound(l, c) ==
    [m \in DOMAIN l |-> IF l[m].holder = c THEN [holder |-> 0, poisoned |-> TRUE]
                        ELSE l[m]]

\* the handler has panicked
Aborted(c) ==
    /\ handlers' = [handlers EXCEPT ![c].pc = "done", ![c].response = Panic]
    /\ locks' = Unwound(locks, c)

\* the request is routed: to its handler when the App has it registered;
\* otherwise no handler runs and the framework answers 404 itself
Routed(req, registered) ==
    IF req.kind \in registered
    THEN [pc |-> "lock_db", request |-> req, response |-> Pending]
    ELSE [pc |-> "done", request |-> req, response |-> Err("NotFound", <<>>)]

\* a request arrives
Receive(c) ==
    /\ handlers[c].pc = "idle"
    /\ \E req \in WebRequests :
           handlers' = [handlers EXCEPT ![c] = Routed(req, services)]
    /\ UNCHANGED <<parseVars, doseVars, infoVars, mixVars, dbVars, locks, services>>

\* let locked_db = state.db.lock().unwrap();
LockDb(c) ==
    /\ handlers[c].pc = "lock_db"
    /\ locks.db.holder = 0
    /\ IF locks.db.poisoned
       THEN Aborted(c)
       ELSE /\ locks' = [locks EXCEPT !.db.holder = c]
            /\ handlers' = [handlers EXCEPT ![c].pc =
                               IF handlers[c].request.kind = "list" THEN "serve"
                               ELSE "lock_elts"]
    /\ UNCHANGED <<parseVars, doseVars, infoVars, mixVars, dbVars, services>>

\* let locked_elts = state.known_elements.lock().unwrap();
LockElts(c) ==
    /\ handlers[c].pc = "lock_elts"
    /\ locks.elts.holder = 0
    /\ IF locks.elts.poisoned
       THEN Aborted(c)
       ELSE /\ locks' = [locks EXCEPT !.elts.holder = c]
            /\ handlers' = [handlers EXCEPT ![c].pc = "serve"]
    /\ UNCHANGED <<parseVars, doseVars, infoVars, mixVars, dbVars, services>>

\* the body of the handler with the answer it computes
Replied(c, answer) ==
    IF answer.status = "panic"
    THEN Aborted(c)
    ELSE /\ handlers' = [handlers EXCEPT ![c].pc = "return", ![c].response = answer]
         /\ UNCHANGED locks

\* the handler reads the catalogs and builds its response
Serve(c) ==
    /\ handlers[c].pc = "serve"
    /\ Replied(c, Handle(handlers[c].request, known_fertilizers, overflow_checks))
    /\ UNCHANGED <<parseVars, doseVars, infoVars, mixVars, dbVars, services>>

\* the handler returns: locked_elts and locked_db go out of scope
Respond(c) ==
    /\ handlers[c].pc = "return"
    /\ handlers' = [handlers EXCEPT ![c].pc = "done"]
    /\ locks' = Dropped(locks, c)
    /\ UNCHANGED <<parseVars, doseVars, infoVars, mixVars, dbVars, services>>

Receiving == \E c \in Clients : Receive(c)
LockingDb == \E c \in Clients : LockDb(c)
LockingElts == \E c \in Clients : LockElts(c)
Serving == \E c \in Clients : Serve(c)
Responding == \E c \in Clients : Respond(c)

NextWeb ==
    \/ Receiving
    \/ LockingDb
    \/ LockingElts
    \/ Serving
    \/ Responding

SpecWeb == InitWeb /\ [][NextWeb]_vars

-----------------------------------------------------------------------------
(* The reading of a formula that the documentation describes, used only to *)
(* state the properties: a formula is a sequence of items, an item is a    *)
(* catalog symbol or a parenthesised formula, either followed by an        *)
(* optional decimal literal.                                               *)

Names == DOMAIN KnownElements

\* a count for every catalog name, 0 when the map has no entry
CountOf(elements, e) == IF e \in DOMAIN elements THEN elements[e] ELSE 0

NoCounts == [e \in Names |-> 0]

RECURSIVE RunEnd(_, _, _)
\* the last index of the run of characters of `class` that starts at i (i - 1 if none)
RunEnd(f, i, class) ==
    IF i <= Len(f) /\ f[i] \in class THEN RunEnd(f, i + 1, class) ELSE i - 1

RECURSIVE DecimalValue(_)
DecimalValue(digits) ==
    IF digits = <<>> THEN 0
    ELSE DecimalValue(SubSeq(digits, 1, Len(digits) - 1)) * 10 + to_digit(digits[Len(digits)])

RECURSIVE MatchClose(_, _, _)
\* the index of the ')' that closes the '(' at depth 1 before i, 0 if there is none
MatchClose(f, i, depth) ==
    IF i > Len(f) THEN 0
    ELSE IF f[i] = ")" THEN (IF depth = 1 THEN i ELSE MatchClose(f, i + 1, depth - 1))
    ELSE IF f[i] = "(" THEN MatchClose(f, i + 1, depth + 1)
    ELSE MatchClose(f, i + 1, depth)

RECURSIVE Balanced(_, _, _)
\* every ')' closes an earlier '(' and every '(' is closed
Balanced(f, i, depth) ==
    IF i > Len(f) THEN depth = 0
    ELSE IF f[i] = "(" THEN Balanced(f, i + 1, depth + 1)
    ELSE IF f[i] = ")" THEN depth > 0 /\ Balanced(f, i + 1, depth - 1)
    ELSE Balanced(f, i + 1, depth)

\* some '(' of f is never closed
HasUnclosedParen(f) == \E i \in 1..Len(f) : f[i] = "(" /\ MatchClose(f, i + 1, 1) = 0

Invalid == [valid |-> FALSE]
Valid(counts) == [valid |-> TRUE, counts |-> counts]

RECURSIVE Read(_, _, _)
\* the documented reading of f from item i on, added to total
Read(f, i, total) ==
    IF i > Len(f) THEN Valid(total)
    ELSE IF f[i] \in AsciiUppercase
    THEN LET j == RunEnd(f, i + 1, Lowercase)
             k == RunEnd(f, j + 1, AsciiDigit)
             name == SubSeq(f, i, j)
             n == IF k > j THEN DecimalValue(SubSeq(f, j + 1, k)) ELSE 1
         IN  IF name \notin Names \/ n < 1 THEN Invalid
             ELSE Read(f, k + 1, [total EXCEPT ![name] = @ + n])
    ELSE IF f[i] = "("
    THEN LET j == MatchClose(f, i + 1, 1)
             k == RunEnd(f, j + 1, AsciiDigit)
             n == IF k > j THEN DecimalValue(SubSeq(f, j + 1, k)) ELSE 1
             inner == Read(SubSeq(f, i + 1, j - 1), 1, NoCounts)
         IN  IF j = 0 \/ j = i + 1 THEN Invalid
             ELSE IF ~inner.valid THEN Invalid
             ELSE Read(f, k + 1, [e \in Names |-> total[e] + n * inner.counts[e]])
    ELSE Invalid

\* f is a non-empty formula of the documented shape
WellFormed(f) == f /= <<>> /\ Read(f, 1, NoCounts).valid
\* f is made only of catalog symbols with optional literals n >= 1
IsSimple(f) == WellFormed(f) /\ \A i \in 1..Len(f) : f[i] \notin {"(", ")"}
\* the counts of the documented reading
ReadCounts(f) == IF f = <<>> THEN NoCounts ELSE Read(f, 1, NoCounts).counts

RECURSIVE MassOfCounts(_, _)
MassOfCounts(counts, todo) ==
    IF todo = {} THEN 0
    ELSE LET elt == CHOOSE e \in todo : TRUE
         IN  counts[elt] * KnownElements[elt].molar_mass + MassOfCounts(counts, todo \ {elt})

\* the counts of the returned compound agree with `counts` on every catalog name
ReturnsCounts(res, counts) ==
    /\ res.status = "ok"
    /\ DOMAIN res.val.elements \subseteq Names
    /\ \A e \in Names : CountOf(res.val.elements, e) = counts[e]

-----------------------------------------------------------------------------
(* C1: a formula made only of catalog symbols, each optionally followed by *)
(* a literal n >= 1, parses; every element is mapped to the sum of its     *)
(* literals (1 where none follows), elements that do not occur have no     *)
(* entry, and molar_mass is the sum of count x element molar mass.         *)
C1_SimpleFormula ==
    (Returned /\ IsSimple(formula)) =>
        /\ ReturnsCounts(result, ReadCounts(formula))
        /\ DOMAIN result.val.elements = {e \in Names : ReadCounts(formula)[e] > 0}
        /\ result.val.name = formula
        /\ molar_mass(result.val) = MassOfCounts(ReadCounts(formula), Names)

\* NH4NO3 has been parsed: N occurs twice, once with a literal after H
C1_Witness ==
    /\ formula = <<"N","H","4","N","O","3">>
    /\ result.status = "ok"
    /\ result.val.elements = (<<"N">> :> 2) @@ (<<"H">> :> 4) @@ (<<"O">> :> 3)

-----------------------------------------------------------------------------
\* the splits of f as pre ( group ) digits post, the '(' at i closed by the ')' at j
GroupSplits(f) ==
    {<<i, j>> \in (1..Len(f)) \X (1..Len(f)) :
        f[i] = "(" /\ j = MatchClose(f, i + 1, 1)}

Before(f, i) == SubSeq(f, 1, i - 1)
Inside(f, i, j) == SubSeq(f, i + 1, j - 1)
MultiplierEnd(f, j) == RunEnd(f, j + 1, AsciiDigit)
Multiplier(f, j) ==
    IF MultiplierEnd(f, j) > j THEN DecimalValue(SubSeq(f, j + 1, MultiplierEnd(f, j)))
    ELSE 1
After(f, j) == SubSeq(f, MultiplierEnd(f, j) + 1, Len(f))

\* the rest of the formula around a group reads as documented (it may be empty)
ReadsOrEmpty(f) == f = <<>> \/ WellFormed(f)

(* C2: a group followed by a multiplier n contributes n times the counts   *)
(* of the group's own parse, once with no multiplier, and the contribution *)
(* adds to the counts of the same element from the rest of the formula.    *)
C2_GroupMultiplier ==
    Returned =>
        \A ij \in GroupSplits(formula) :
            LET group == New(Inside(formula, ij[1], ij[2]), overflow_checks)
                pre == Before(formula, ij[1])
                post == After(formula, ij[2])
                n == Multiplier(formula, ij[2])
            IN  (group.status = "ok" /\ ReadsOrEmpty(pre) /\ ReadsOrEmpty(post)) =>
                    ReturnsCounts(result,
                        [e \in Names |-> ReadCounts(pre)[e]
                                           + n * CountOf(group.val.elements, e)
                                           + ReadCounts(post)[e]])

\* Ca(NO3)2 has been parsed
C2_Witness ==
    /\ formula = <<"C","a","(","N","O","3",")","2">>
    /\ result.status = "ok"
    /\ result.val.elements = (<<"C","a">> :> 1) @@ (<<"N">> :> 2) @@ (<<"O">> :> 6)

-----------------------------------------------------------------------------
\* f is X*H2O or X*nH2O for one digit n, X without '*'
HydrateSplits(f) ==
    {p \in 1..Len(f) :
        /\ f[p] = "*"
        /\ \A q \in 1..(p - 1) : f[q] /= "*"
        /\ \/ SubSeq(f, p + 1, Len(f)) = <<"H","2","O">>
           \/ /\ Len(f) = p + 4
              /\ f[p + 1] \in AsciiDigit
              /\ SubSeq(f, p + 2, Len(f)) = <<"H","2","O">>}

HydrateCount(f, p) == IF f[p + 1] \in AsciiDigit THEN to_digit(f[p + 1]) ELSE 1

Water == [e \in Names |-> IF e = <<"H">> THEN 2 ELSE IF e = <<"O">> THEN 1 ELSE 0]

(* C3: X*nH2O parses to X's own counts plus n x {H:2, O:1}: the characters *)
(* after '*' are consumed by the hydrate parse alone.                      *)
C3_Hydrate ==
    Returned =>
        \A p \in HydrateSplits(formula) :
            LET x == New(Before(formula, p), overflow_checks)
            IN  x.status = "ok" =>
                    ReturnsCounts(result,
                        [e \in Names |-> CountOf(x.val.elements, e)
                                           + HydrateCount(formula, p) * Water[e]])

-----------------------------------------------------------------------------
\* f is ( X ) followed by an optional multiplier and nothing else
Wrapped(f) ==
    /\ Len(f) >= 2 /\ f[1] = "("
    /\ MatchClose(f, 2, 1) > 0
    /\ MultiplierEnd(f, MatchClose(f, 2, 1)) = Len(f)

RECURSIVE Core(_)
\* f without its redundant outer parentheses
Core(f) ==
    IF Len(f) >= 2 /\ f[1] = "(" /\ MatchClose(f, 2, 1) = Len(f)
    THEN Core(SubSeq(f, 2, Len(f) - 1))
    ELSE f

\* X is a formula the parser accepts, with balanced parentheses
ValidFormula(f, checks) == Balanced(f, 1, 0) /\ New(f, checks).status = "ok"

(* C4: redundant parentheses do not change the parse: (X) and (X)1 have    *)
(* the element map of X at any nesting depth, (..(X)..)n has n times the   *)
(* counts of X, and a parenthesised part (X) or (X)1 of a formula reads as *)
(* X does.                                                                 *)
C4_RedundantParens ==
    Returned =>
        /\ Wrapped(formula) =>
              LET j == MatchClose(formula, 2, 1)
                  x == Inside(formula, 1, j)
                  n == Multiplier(formula, j)
                  inner == New(x, overflow_checks)
                  core == New(Core(x), overflow_checks)
              IN  ValidFormula(Core(x), overflow_checks) =>
                      /\ inner.status = "ok"
                      /\ inner.val.elements = core.val.elements
                      /\ ReturnsCounts(result,
                             [e \in Names |-> n * CountOf(core.val.elements, e)])
                      /\ n = 1 => result.val.elements = core.val.elements
        /\ \A ij \in GroupSplits(formula) :
              LET pre == Before(formula, ij[1])
                  x == Inside(formula, ij[1], ij[2])
                  post == After(formula, ij[2])
                  plain == New(pre \o x \o post, overflow_checks)
              IN  (/\ Multiplier(formula, ij[2]) = 1
                   /\ WellFormed(x) /\ ReadsOrEmpty(pre) /\ ReadsOrEmpty(post)) =>
                      /\ plain.status = "ok"
                      /\ ReturnsCounts(result,
                             [e \in Names |-> CountOf(plain.val.elements, e)])

\* (((Ca)))2 has been parsed to {Ca: 2}
C4_Witness ==
    /\ formula = <<"(","(","(","C","a",")",")",")","2">>
    /\ result.status = "ok"
    /\ result.val.elements = (<<"C","a">> :> 2)

-----------------------------------------------------------------------------
UnknownElementError(res) ==
    res.status = "err" /\ res.error[1] = "UnknownElement"

(* C5: whenever a name handed to the catalog lookup during the scan is not *)
(* a catalog key, Compound::new returns the UnknownElement error for that  *)
(* name and no Compound; the UnknownElement error of a parenthesised group *)
(* never leaves a Compound, and is returned unchanged when the scan        *)
(* reaches the group.                                                      *)
C5_UnknownElement ==
    /\ \A name \in flushed \ Names :
          result = Err("UnknownElement", name)
    /\ Returned =>
          \A ij \in GroupSplits(formula) :
              LET group == New(Inside(formula, ij[1], ij[2]), overflow_checks)
              IN  UnknownElementError(group) =>
                      /\ result.status /= "ok"
                      /\ ReadsOrEmpty(Before(formula, ij[1])) => result = group

\* Ololo has been rejected, and so has a group holding an unknown name
C5_Witness ==
    \/ /\ formula = <<"O","l","o","l","o">>
       /\ result = Err("UnknownElement", <<"O","l","o","l","o">>)
    \/ /\ formula = <<"N","(","a",")">>
       /\ result = Err("UnknownElement", <<"a">>)
       /\ flushed = {<<"N">>}

-----------------------------------------------------------------------------
\* a digit of f has neither an element nor a group before it at this level
LeadingDigit(f) ==
    \E i \in 1..Len(f) :
        /\ f[i] \in AsciiDigit
        /\ \A j \in 1..(i - 1) : f[j] \notin AsciiUppercase \cup {"(", ")", "*"}

\* such a digit occurs at the top level of f or at the top level of a group of f
DanglingDigit(f) ==
    \/ LeadingDigit(f)
    \/ \E ij \in GroupSplits(f) : LeadingDigit(Inside(f, ij[1], ij[2]))

(* C6: a formula with a digit that no element and no group precedes at its *)
(* parse level yields no Compound, and a pending multiplier with nothing   *)
(* to attach to is never carried into a returned Compound.                 *)
C6_DanglingMultiplier ==
    /\ (Returned /\ DanglingDigit(formula)) => result.status /= "ok"
    /\ (scan.last_cnt.some /\ ~scan.last_element.some /\ ~scan.last_subcompound.some) =>
           result.status /= "ok"

\* 2KO and (2) have been rejected for the digit
C6_Witness ==
    /\ formula \in { <<"2","K","O">>, <<"(","2",")">> }
    /\ result = Err("DanglingMultiplier", <<>>)

-----------------------------------------------------------------------------
(* C7: no formula in which some '(' is never closed yields a Compound.     *)
C7_UnbalancedFails ==
    (Returned /\ HasUnclosedParen(formula)) => result.status /= "ok"

-----------------------------------------------------------------------------
(* C8: every Compound returned has a non-empty element map in which every  *)
(* atom count is >= 1.                                                     *)
C8_CountsPositive ==
    result.status = "ok" =>
        /\ DOMAIN result.val.elements /= {}
        /\ \A e \in DOMAIN result.val.elements : result.val.elements[e] >= 1

-----------------------------------------------------------------------------
\* the request is a ResultOfDose one of this kind and its dilute has returned a result
Reported(kind) ==
    /\ request /= Idle /\ request.kind = kind /\ request.what = "ResultOfDose"
    /\ outcome.status = "ok"

\* the entries of elements_dose for element e
DosesOf(elements_dose, e) ==
    {elements_dose[i].dose : i \in {j \in 1..Len(elements_dose) :
                                       elements_dose[j].element = e}}

Significant(compound) == {e \in DOMAIN compound.elements : ~is_insignificant(e)}

(* C9: a Dry ResultOfDose result reports for every significant element of  *)
(* the fertilizer the dose fraction x dose_g x 1000 / effective_volume,    *)
(* and a compound_dose equal to the input dose_g.                          *)
C9_DryResultOfDose ==
    Reported("Dry") =>
        /\ outcome.val.compound_dose = request.dilute_input
        /\ \A e \in Significant(result.val) :
              DosesOf(outcome.val.elements_dose, e) =
                  {Eval(element_fraction(result.val, e).val,
                        <<Times(request.dilute_input), Times(FromInt(1000)),
                          Over(FromInt(effective_volume(tank)))>>)}

\* the claim for the tanks whose effective volume is positive
C9_PositiveVolume ==
    effective_volume(tank) > 0 => C9_DryResultOfDose

\* 1 g of KNO3 in the 200 l tank: N = 0.81496 mg/l, K = 2.27482 mg/l
C9_Witness ==
    /\ formula = <<"K","N","O","3">>
    /\ tank = Tank(Left(FromInt(200)), FALSE)
    /\ request = DryDosing(FromInt(1), "ResultOfDose", None)
    /\ outcome.status = "ok"
    /\ outcome.val.compound_dose = FromInt(1)
    /\ DosesOf(outcome.val.elements_dose, <<"N">>) = {[n |-> 14007000, d |-> 17187391]}
    /\ DosesOf(outcome.val.elements_dose, <<"K">>) = {[n |-> 2299900, d |-> 1011023]}

-----------------------------------------------------------------------------
\* the dry request with dose_g x portion_volume / container_volume
DryEquivalent(req) ==
    DryDosing(Eval(req.dose, <<Times(req.portion_volume), Over(req.container_volume)>>),
              "ResultOfDose", req.target_element)

(* C10: a Solution ResultOfDose result has the per-element doses, aliases  *)
(* included, of the Dry ResultOfDose result for the same fertilizer and    *)
(* tank with dose_g x portion_volume / container_volume.                   *)
C10_SolutionAsDry ==
    Reported("Solution") =>
        LET dry == DryDilute(DryEquivalent(request), result.val, tank, overflow_checks)
        IN  /\ dry.status = "ok"
            /\ outcome.val.elements_dose = dry.val.elements_dose

\* 10 g of KNO3 in 1000 ml, a 100 ml portion, the 200 l tank: the 1 g dry doses
C10_Witness ==
    /\ formula = <<"K","N","O","3">>
    /\ tank = Tank(Left(FromInt(200)), FALSE)
    /\ request = SolutionDosing(FromInt(1000), FromInt(100), FromInt(10),
                                "ResultOfDose", None)
    /\ outcome.status = "ok"
    /\ DryEquivalent(request).dilute_input = FromInt(1)
    /\ DosesOf(outcome.val.elements_dose, <<"N">>) = {[n |-> 14007000, d |-> 17187391]}
    /\ DosesOf(outcome.val.elements_dose, <<"K">>) = {[n |-> 2299900, d |-> 1011023]}

-----------------------------------------------------------------------------
\* the dilute of a TargetDose request of this kind has returned, and the target
\* is a significant element of the fertilizer
Targeted(kind) ==
    /\ request /= Idle /\ request.kind = kind /\ request.what = "TargetDose"
    /\ outcome.status \in {"ok", "err", "panic"}
    /\ request.target_element.some
    /\ request.target_element.val \in Significant(result.val)

\* the ResultOfDose request of the same shape that takes `amount` as its input
FedBack(req, amount) ==
    IF req.kind = "Dry"
    THEN DryDosing(amount, "ResultOfDose", None)
    ELSE SolutionDosing(req.container_volume, req.portion_volume, amount,
                        "ResultOfDose", None)

\* the target concentration of a TargetDose request
TargetOf(req) == IF req.kind = "Dry" THEN req.dilute_input ELSE req.dose

\* the result reports exactly the dose c for element e
ReportsDose(res, e, c) ==
    res.status = "ok" /\ DosesOf(res.val.elements_dose, e) = {c}

\* the TargetDose result reports the target for its element, and so does the
\* ResultOfDose result for its compound_dose
InverseHolds ==
    /\ ReportsDose(outcome, request.target_element.val, TargetOf(request))
    /\ ReportsDose(IF request.kind = "Dry"
                   THEN DryDilute(FedBack(request, outcome.val.compound_dose),
                                  result.val, tank, overflow_checks)
                   ELSE SolutionDilute(FedBack(request, outcome.val.compound_dose),
                                       result.val, tank, overflow_checks),
                   request.target_element.val, TargetOf(request))

(* C11: for a fertilizer with significant element E and a tank of positive *)
(* effective volume, the TargetDose result for concentration C on E        *)
(* reports dose C for E, and the ResultOfDose result for its compound_dose *)
(* (same tank, container and portion) reports dose C for E again.          *)
C11_TargetDoseInverse ==
    ((Targeted("Dry") \/ Targeted("Solution")) /\ effective_volume(tank) > 0) =>
        InverseHolds

\* the same for the requests whose container and portion volumes are positive
C11_PositiveVolumes ==
    (/\ Targeted("Dry") \/ Targeted("Solution")
     /\ effective_volume(tank) > 0
     /\ request.kind = "Solution" =>
            Class(request.container_volume) = "pos" /\ Class(request.portion_volume) = "pos")
        => InverseHolds

\* 10 mg/l of N from KNO3 in the 200 l tank through a 20 ml portion of 1000 ml:
\* 613.5 g in the container, and 613.5 g fed back give 10 mg/l of N
C11_Witness ==
    /\ formula = <<"K","N","O","3">>
    /\ tank = Tank(Left(FromInt(200)), FALSE)
    /\ request = SolutionDosing(FromInt(1000), FromInt(20), FromInt(10),
                                "TargetDose", Some(<<"N">>))
    /\ outcome.status = "ok"
    /\ outcome.val.compound_dose = [n |-> 17187391, d |-> 28014]
    /\ InverseHolds

-----------------------------------------------------------------------------
\* get_element_dose_target, from the parsed token on: the first element of the
\* token's components_percentage and the target scaled by its concentration
TopElementTarget(concentrations, target) ==
    IF concentrations.status /= "ok" THEN concentrations
    ELSE IF concentrations.val = <<>> THEN Panic
    ELSE Ok([target_element |-> concentrations.val[1].element,
             dilute_input |-> FMul(target, concentrations.val[1].concentration)])

\* get_element_dose_target after `Compound::new(input, known_elements)?`
TokenTarget(compound, target, checks) ==
    IF compound.status /= "ok" THEN compound
    ELSE TopElementTarget(components_percentage(compound.val, checks), target)

\* get_element_dose_target for the token and the concentration read from the user
get_element_dose_target(input, target, checks) ==
    TokenTarget(New(input, checks), target, checks)

\* the request with its token resolved to an element and its target rescaled
Resolved(req, to) ==
    IF req.kind = "Dry"
    THEN DryDosing(to.dilute_input, req.what, Some(to.target_element))
    ELSE SolutionDosing(req.container_volume, req.portion_volume, to.dilute_input,
                        req.what, Some(to.target_element))

\* the dilute of a TargetDose request that names a target has returned
TargetAnswered ==
    /\ request /= Idle /\ request.what = "TargetDose"
    /\ outcome.status \in {"ok", "err", "panic"}
    /\ request.target_element.some

(* C12: in TargetDose mode the target token is parsed as a compound and    *)
(* resolved to the element of the fertilizer it contains, the target being *)
(* the concentration of the token: the request is answered as the request  *)
(* for that element at the target scaled by the element's fraction in the  *)
(* token is, and 10 mg/l of NO3 from KNO3 in 170 l takes 2.772 g dry and   *)
(* 138.599 g in a 1000 ml container dosed by 20 ml.                        *)
C12_AliasTarget ==
    TargetAnswered =>
        LET to == get_element_dose_target(request.target_element.val,
                                          TargetOf(request), overflow_checks)
        IN  (to.status = "ok" /\ to.val.target_element \in Significant(result.val)) =>
                /\ outcome.status = "ok"
                /\ outcome = Dilute(Resolved(request, to.val), result.val, tank,
                                    overflow_checks)
                /\ (/\ formula = <<"K","N","O","3">>
                    /\ effective_volume(tank) = 170
                    /\ request.target_element.val = <<"N","O","3">>
                    /\ TargetOf(request) = FromInt(10)) =>
                       \/ /\ request.kind = "Dry"
                          /\ outcome.val.compound_dose = Rat(17187391, 6200400)
                       \/ /\ request.kind = "Solution"
                          /\ request.container_volume = FromInt(1000)
                          /\ request.portion_volume = FromInt(20)
                          /\ outcome.val.compound_dose = Rat(17187391, 124008)
                       \/ /\ request.kind = "Solution"
                          /\ <<request.container_volume, request.portion_volume>>
                                 /= <<FromInt(1000), FromInt(20)>>

-----------------------------------------------------------------------------
\* the dilute of the request has returned
Answered == request /= Idle /\ outcome.status \in {"ok", "err", "panic"}

\* the elements components_percentage reports for the fertilizer
ReportedElements(fertilizer, checks) ==
    {c.element : c \in SeqRange(components_percentage(fertilizer, checks).val)}

(* C13: in TargetDose mode both dilute methods return an error and no      *)
(* DiluteResult when the request names no target element or names one that *)
(* components_percentage does not report for the fertilizer; in            *)
(* ResultOfDose mode the target element is ignored: the result is the one  *)
(* of the request without it, and never an error.                          *)
C13_TargetErrors ==
    Answered =>
        /\ (request.what = "TargetDose" /\ ~request.target_element.some) =>
               outcome = Err("NoTargetElement", <<>>)
        /\ (/\ request.what = "TargetDose" /\ request.target_element.some
            /\ request.target_element.val
                  \notin ReportedElements(result.val, overflow_checks)) =>
               outcome = Err("MissingTargetElement", request.target_element.val)
        /\ request.what = "ResultOfDose" =>
               /\ outcome.status = "ok"
               /\ outcome = Dilute([request EXCEPT !.target_element = None],
                                   result.val, tank, overflow_checks)

\* a target of 10 mg/l of Mg from KNO3 has been refused
C13_Witness ==
    /\ formula = <<"K","N","O","3">>
    /\ request = DryDosing(FromInt(10), "TargetDose", Some(<<"M","g">>))
    /\ outcome = Err("MissingTargetElement", <<"M","g">>)

-----------------------------------------------------------------------------
\* the volume of the tank in litres: the literal, or height x length x width
LitresOf(t) ==
    IF t.volume.left THEN t.volume.val
    ELSE [n |-> t.volume.val.height.n * t.volume.val.length.n * t.volume.val.width.n,
          d |-> t.volume.val.height.d * t.volume.val.length.d * t.volume.val.width.d]

\* k = floor(n / d) for d > 0
IsFloor(k, n, d) == k * d <= n /\ n < (k + 1) * d

(* C14: effective_volume is floor(volume x 0.85) when absolute is false    *)
(* (also when the field was absent) and floor(volume) when it is true, and *)
(* metric_volume is floor(volume), the volume being the literal or height  *)
(* x length x width; 9 x 5 x 5 gives 225 and 191, 200 gives 200 and 170.   *)
C14_TankVolumes ==
    tank /= Idle =>
        /\ IsFloor(metric_volume(tank), LitresOf(tank).n, LitresOf(tank).d)
        /\ tank.absolute =>
               IsFloor(effective_volume(tank), LitresOf(tank).n, LitresOf(tank).d)
        /\ ~tank.absolute =>
               IsFloor(effective_volume(tank), LitresOf(tank).n * 85,
                       LitresOf(tank).d * 100)
        /\ \A input \in TankInputs :
               ~input.absolute.some =>
                   new_from_toml(input) = new_from_toml([input EXCEPT !.absolute = Some(FALSE)])
        /\ tank = new_from_toml(Tank(Right(LinearDimensions(FromInt(9), FromInt(5),
                                                            FromInt(5))), None)) =>
               metric_volume(tank) = 225 /\ effective_volume(tank) = 191
        /\ tank = new_from_toml(Tank(Left(FromInt(200)), None)) =>
               metric_volume(tank) = 200 /\ effective_volume(tank) = 170

\* the f64 of n / d is n / d: d is a power of two (n is below 2^31)
Representable(x) == x.d = 2 ^ (Bits(x.d) - 1)

\* every number of the tank is an f64
WrittenExactly(t) ==
    IF t.volume.left THEN Representable(t.volume.val)
    ELSE /\ Representable(t.volume.val.height)
         /\ Representable(t.volume.val.length)
         /\ Representable(t.volume.val.width)

\* the statement of C14 for the tanks whose numbers are f64s
C14_ExactTanks ==
    (tank /= Idle /\ WrittenExactly(tank)) => C14_TankVolumes

\* a dose has been computed for the 9 x 5 x 5 tank: 225 l, 191 l effective
C14_Witness ==
    /\ tank = Tank(Right(LinearDimensions(FromInt(9), FromInt(5), FromInt(5))), FALSE)
    /\ metric_volume(tank) = 225
    /\ effective_volume(tank) = 191
    /\ outcome.status = "ok"

\* a dose has been computed for the 0.29 x 100 x 1 tank: 28 l, not 29
C14_RoundedWitness ==
    /\ tank = Tank(Right(LinearDimensions(Rat(29, 100), FromInt(100), FromInt(1))), TRUE)
    /\ LitresOf(tank) = [n |-> 2900, d |-> 100]
    /\ metric_volume(tank) = 28
    /\ effective_volume(tank) = 28
    /\ outcome.status = "ok"

-----------------------------------------------------------------------------
\* n / d as an f64: the fraction in lowest terms, 0/0 is NaN
Quotient(n, d) ==
    IF d = 0 THEN (IF n = 0 THEN NaN ELSE Inf) ELSE Rat(n, d)

\* element_fraction has been called on the parsed compound
FractionAsked == fraction /= Idle /\ fraction /= Pending

(* C15: element_fraction(e) is count(e) x molar_mass(e) divided by the     *)
(* molar mass of the compound when e is in the compound, and None when it  *)
(* is not: never a number for an element the compound does not contain.    *)
C15_ElementFraction ==
    FractionAsked =>
        LET e == fraction.element
            counts == [x \in Names |-> CountOf(result.val.elements, x)]
        IN  IF e \in DOMAIN result.val.elements
            THEN fraction.val = Some(Quotient(counts[e] * KnownElements[e].molar_mass,
                                              MassOfCounts(counts, Names)))
            ELSE fraction.val = None

\* KNO3: the fraction of N is 0.13854, and there is none for Mg
C15_Witness ==
    /\ formula = <<"K","N","O","3">>
    /\ FractionAsked
    /\ \/ fraction = [element |-> <<"N">>, val |-> Some([n |-> 140070, d |-> 1011023])]
       \/ fraction = [element |-> <<"M","g">>, val |-> None]

-----------------------------------------------------------------------------
\* the mass fraction of element e inside the compound parsed from its i-th alias
FractionInside(e, i, checks) ==
    element_fraction(New(KnownElements[e].aliases[i], checks).val, e).val

\* the entry lists every configured alias of its element, in order
ListsAliases(entry) ==
    /\ Len(entry.aliases) = Len(KnownElements[entry.element].aliases)
    /\ \A i \in 1..Len(entry.aliases) :
           entry.aliases[i].element_alias = KnownElements[entry.element].aliases[i]

\* both figures are finite and positive
Positive(a, b) == Class(a) = "pos" /\ Class(b) = "pos"

\* f64 `==`: NaN equals nothing
SameNumber(a, b) == a = b /\ Class(a) /= "nan"

\* the statement of C17; the quotient of the doses is compared for every
\* multiplier, or only where the element's dose and fraction are finite and
\* positive
AliasRates(every_multiplier) ==
    (Answered /\ outcome.status = "ok") =>
        LET percentages == components_percentage(result.val, overflow_checks).val
        IN  /\ Len(outcome.val.elements_dose) = Len(percentages)
            /\ \A k \in 1..Len(percentages) :
                  LET c == percentages[k]
                      d == outcome.val.elements_dose[k]
                  IN  /\ d.element = c.element
                      /\ ListsAliases(c) /\ ListsAliases(d)
                      /\ \A i \in 1..Len(c.aliases) :
                            LET inside == FractionInside(c.element, i, overflow_checks)
                            IN  /\ c.aliases[i].concentration =
                                       FDiv(c.concentration, inside)
                                /\ d.aliases[i].dose =
                                       FMul(d.dose, FDiv(FromInt(1), inside))
                                /\ (every_multiplier \/ Positive(d.dose, c.concentration)) =>
                                       SameNumber(FDiv(d.aliases[i].dose, d.dose),
                                                  FDiv(c.aliases[i].concentration,
                                                       c.concentration))

(* C17, as stated: for every reported element and each of its configured   *)
(* aliases A, the alias fraction is the element's fraction divided by the  *)
(* element's mass fraction inside the compound parsed from A, the alias    *)
(* dose is the element's dose multiplied by the same rate, and alias dose  *)
(* / element dose = alias fraction / element fraction for every            *)
(* multiplier.                                                             *)
C17_EveryMultiplier == AliasRates(TRUE)

(* C17, amended: the alias fraction is the element's fraction divided by   *)
(* the element's mass fraction inside the compound parsed from A and the   *)
(* alias dose is the element's dose multiplied by the same rate, for every *)
(* multiplier; alias dose / element dose = alias fraction / element        *)
(* fraction where the element's dose is finite and positive.               *)
C17_AliasRates == AliasRates(FALSE)

\* a dose of 0 g: the N and NO3 doses are 0 and their quotient is NaN, while
\* the fractions have the quotient 62004 / 14007
C17_ZeroDoseWitness ==
    /\ formula = <<"K","N","O","3">>
    /\ tank = Tank(Left(FromInt(200)), FALSE)
    /\ request = DryDosing(FromInt(0), "ResultOfDose", None)
    /\ outcome.status = "ok"
    /\ outcome.val.elements_dose[1].element = <<"N">>
    /\ Class(outcome.val.elements_dose[1].dose) = "zero"
    /\ Class(outcome.val.elements_dose[1].aliases[1].dose) = "zero"
    /\ Class(FDiv(outcome.val.elements_dose[1].aliases[1].dose,
                  outcome.val.elements_dose[1].dose)) = "nan"

\* 1 g of KNO3 in the 200 l tank: 0.81496 mg/l of N is 3.60753 mg/l of NO3
C17_Witness ==
    /\ formula = <<"K","N","O","3">>
    /\ tank = Tank(Left(FromInt(200)), FALSE)
    /\ request = DryDosing(FromInt(1), "ResultOfDose", None)
    /\ outcome.status = "ok"
    /\ outcome.val.elements_dose[1].element = <<"N">>
    /\ outcome.val.elements_dose[1].dose = [n |-> 14007000, d |-> 17187391]
    /\ outcome.val.elements_dose[1].aliases[1] =
           [element_alias |-> <<"N","O","3">>, dose |-> [n |-> 62004000, d |-> 17187391]]

-----------------------------------------------------------------------------
\* MixedFertilizer::new_from_npk has returned a mix
BuiltFromNpk == mix_input /= Idle /\ mix_input.kind = "npk" /\ mix.status = "ok"

\* the mass share of `count` atoms of an element in its oxide with `oxygens` atoms
\* of oxygen, from the molar masses of the catalog
OxideShare(element, count, oxygens) ==
    Quotient(count * KnownElements[element].molar_mass,
             count * KnownElements[element].molar_mass +
             oxygens * KnownElements[<<"O">>].molar_mass)

\* percentage / 100 x share
ShareOfPercentage(percentage, share) ==
    Quotient(percentage.n * share.n, percentage.d * 100 * share.d)

\* the entry of an element: none for a percentage of 0, else the expected fraction
StoredAs(element, percentage, expected) ==
    IF percentage = FromInt(0)
    THEN element \notin DOMAIN mix.val.elements_composition
    ELSE /\ element \in DOMAIN mix.val.elements_composition
         /\ mix.val.elements_composition[element] = expected

\* x is within 0.001 of thousandths / 1000
Near(x, thousandths) ==
    /\ (thousandths - 1) * x.d <= 1000 * x.n
    /\ 1000 * x.n <= (thousandths + 1) * x.d

(* C18: new_from_npk stores N as nitrogen_percentage / 100 and P, K, Mg as *)
(* the oxide percentage / 100 times the element's mass fraction in P2O5,   *)
(* K2O and MgO; a macro-nutrient with percentage 0 gets no entry, and no   *)
(* other element is stored.  24-8-16 gives N 0.24, P 0.035, K 0.133 and    *)
(* 2.5 % of MgO gives Mg 0.015, each within 0.001.                         *)
C18_NpkFractions ==
    BuiltFromNpk =>
        LET macros == mix_input.macros
            stored == mix.val.elements_composition
        IN  /\ DOMAIN stored \subseteq {<<"N">>, <<"P">>, <<"K">>, <<"M","g">>}
            /\ StoredAs(<<"N">>, macros.nitrogen_percentage,
                        ShareOfPercentage(macros.nitrogen_percentage, FromInt(1)))
            /\ StoredAs(<<"P">>, macros.p2o5_percentage,
                        ShareOfPercentage(macros.p2o5_percentage, OxideShare(<<"P">>, 2, 5)))
            /\ StoredAs(<<"K">>, macros.k2o_percentage,
                        ShareOfPercentage(macros.k2o_percentage, OxideShare(<<"K">>, 2, 1)))
            /\ StoredAs(<<"M","g">>, macros.mgo_percentage,
                        ShareOfPercentage(macros.mgo_percentage, OxideShare(<<"M","g">>, 1, 1)))
            /\ macros.nitrogen_percentage = FromInt(24) => stored[<<"N">>] = Rat(24, 100)
            /\ macros.p2o5_percentage = FromInt(8) => Near(stored[<<"P">>], 35)
            /\ macros.k2o_percentage = FromInt(16) => Near(stored[<<"K">>], 133)
            /\ macros.mgo_percentage = Rat(5, 2) => Near(stored[<<"M","g">>], 15)

\* the mix of 24-8-16 has been built: N, P and K are stored, Mg is not
C18_Witness ==
    /\ BuiltFromNpk
    /\ mix_input.macros = MacroElements(FromInt(24), FromInt(8), FromInt(16), FromInt(0))
    /\ DOMAIN mix.val.elements_composition = {<<"N">>, <<"P">>, <<"K">>}

-----------------------------------------------------------------------------
\* MixedFertilizer::new_from_toml_object has returned for a table of compounds
FromTable ==
    /\ mix_input /= Idle /\ mix_input.kind = "toml" /\ mix /= Pending
    /\ is_table(mix_input.obj) /\ contains_key(mix_input.obj, "compounds")
    /\ is_table(get(mix_input.obj, "compounds").val)

\* the (compound, portion) pairs of the call
PairsGiven == get(mix_input.obj, "compounds").val.pairs

\* the portion of a pair as a fraction: the number, over 100 when it is a percentage
PortionGiven(v) ==
    LET number == IF v.type = "integer" THEN FromInt(v.int) ELSE v.float
    IN  IF is_percents THEN Quotient(number.n, number.d * 100) ELSE number

\* the pairs whose compound contains the element
Contributors(pairs, element) ==
    {i \in 1..Len(pairs) :
        New(pairs[i][1], overflow_checks).status = "ok" /\
        element_fraction(New(pairs[i][1], overflow_checks).val, element).some}

\* the sum over the pairs up to the i-th of portion x the compound's fraction of
\* the element
RECURSIVE SumOfPortions(_, _, _)
SumOfPortions(pairs, element, i) ==
    IF i = 0 THEN FromInt(0)
    ELSE IF i \notin Contributors(pairs, element) THEN SumOfPortions(pairs, element, i - 1)
    ELSE FAdd(SumOfPortions(pairs, element, i - 1),
              FMul(PortionGiven(pairs[i][2]),
                   element_fraction(New(pairs[i][1], overflow_checks).val, element).val))

\* a pair whose key does not parse or whose portion is not a number
BadPair(pair) ==
    \/ ~is_number(pair[2])
    \/ New(pair[1], overflow_checks).status /= "ok"

(* C19: a mix built from (compound, portion) pairs stores, for each        *)
(* significant element of some compound, the sum over the pairs of         *)
(* portion x the compound's fraction of the element (portion / 100 when    *)
(* percentages are given) and nothing else; when a key does not parse or a *)
(* portion is not a number no mix is built at all.                         *)
C19_MixFromCompounds ==
    FromTable =>
        IF \E i \in 1..Len(PairsGiven) : BadPair(PairsGiven[i])
        THEN mix.status /= "ok"
        ELSE /\ mix.status = "ok"
             /\ DOMAIN mix.val.elements_composition =
                    {e \in Names : ~is_insignificant(e) /\ Contributors(PairsGiven, e) /= {}}
             /\ \A e \in DOMAIN mix.val.elements_composition :
                    mix.val.elements_composition[e] =
                        SumOfPortions(PairsGiven, e, Len(PairsGiven))

\* a mix has been built from two compounds that both contain the same element,
\* with the portions given as percentages
C19_Witness ==
    /\ FromTable /\ mix.status = "ok" /\ is_percents
    /\ \E e \in DOMAIN mix.val.elements_composition :
           /\ Cardinality(Contributors(PairsGiven, e)) = 2
           /\ Class(mix.val.elements_composition[e]) = "pos"

\* a build has failed on a table whose first pair is sound and whose second is not
C19_FailureWitness ==
    /\ FromTable /\ mix.status = "err"
    /\ Len(PairsGiven) = 2 /\ ~BadPair(PairsGiven[1]) /\ BadPair(PairsGiven[2])

-----------------------------------------------------------------------------
\* an entry that is an object with neither a `formula` nor a `compounds` key
Shapeless(obj) ==
    is_table(obj) /\ ~contains_key(obj, "formula") /\ ~contains_key(obj, "compounds")

\* the input of load_db is an object with such an entry
HasShapelessEntry ==
    /\ db_input /= Idle /\ db_input.status = "ok" /\ is_table(db_input.val)
    /\ \E i \in 1..Len(db_input.val.pairs) : Shapeless(db_input.val.pairs[i][2])

(* C20: load_db fails for an input with an entry that has neither a        *)
(* `formula` nor a `compounds` key: once load_db has returned for such an  *)
(* input, it has not returned Ok.                                          *)
C20_NeitherShapeFails ==
    (Loaded /\ HasShapelessEntry) => loaded.status /= "ok"

-----------------------------------------------------------------------------
\* the fertilizer a request was served for
Served == known_fertilizers[formula]

\* the elements of a fertilizer that are not flagged insignificant
SignificantOf(fertilizer) ==
    IF "elements" \in DOMAIN fertilizer
    THEN {e \in DOMAIN fertilizer.elements : ~is_insignificant(e)}
    ELSE {e \in DOMAIN fertilizer.elements_composition : ~is_insignificant(e)}

\* the display order: priority descending, then name ascending
DisplayedBefore(a, b) ==
    \/ priority(a) > priority(b)
    \/ priority(a) = priority(b) /\ NameLess(a, b)

\* a list has exactly the significant elements, each once, in display order
ListsSignificant(list, fertilizer) ==
    /\ {list[i].element : i \in 1..Len(list)} = SignificantOf(fertilizer)
    /\ Len(list) = Cardinality(SignificantOf(fertilizer))
    /\ \A i, j \in 1..Len(list) : i < j => DisplayedBefore(list[i].element, list[j].element)

\* fertilizer_info has answered for a fertilizer of the catalog
InfoServed == Loaded /\ info /= Pending /\ info /= Idle /\ info.status = "ok"

\* calc has answered with a DiluteResult for a fertilizer of the catalog
DoseServed == Loaded /\ outcome /= Pending /\ outcome /= Idle /\ outcome.status = "ok"

(* C16: components_percentage of a compound and of a mix, and the          *)
(* elements_dose of every DiluteResult, hold exactly the fertilizer's      *)
(* elements that are not insignificant, each once, by priority descending  *)
(* and then by name ascending; for KNO3 that is N, then K, and no O.       *)
C16_SignificantInOrder ==
    /\ InfoServed =>
           /\ ListsSignificant(info.val, Served)
           /\ ("elements" \in DOMAIN Served /\ Served.name = <<"K","N","O","3">>) =>
                  [i \in 1..Len(info.val) |-> info.val[i].element] = << <<"N">>, <<"K">> >>
    /\ DoseServed =>
           /\ ListsSignificant(outcome.val.elements_dose, Served)
           /\ ("elements" \in DOMAIN Served /\ Served.name = <<"K","N","O","3">>) =>
                  [i \in 1..Len(outcome.val.elements_dose) |->
                      outcome.val.elements_dose[i].element] = << <<"N">>, <<"K">> >>

\* a catalog with KNO3 and with a mix of K, N and O has been loaded, and the dose
\* of the mix has been reported
C16_Witness ==
    /\ DoseServed
    /\ "elements_composition" \in DOMAIN Served
    /\ Len(outcome.val.elements_dose) = 2
    /\ outcome.val.elements_dose[1].element = <<"N">>
    /\ \E name \in DOMAIN known_fertilizers :
           /\ "elements" \in DOMAIN known_fertilizers[name]
           /\ DOMAIN known_fertilizers[name].elements = {<<"K">>, <<"N">>, <<"O">>}

\* the composition of a compound of two elements of equal priority has been listed
C16_TieWitness ==
    /\ InfoServed
    /\ "elements" \in DOMAIN Served
    /\ [i \in 1..Len(info.val) |-> info.val[i].element] = << <<"C","u">>, <<"N","a">> >>

-----------------------------------------------------------------------------
\* load_db has returned an error
LoadFailed == loaded.status = "err"

(* C21: catalog loading is all-or-nothing: when load_db returns an error   *)
(* the catalog holds exactly the entries it held before the call.          *)
C21_AllOrNothing ==
    LoadFailed => known_fertilizers = db_before

-----------------------------------------------------------------------------
\* a load_db call has returned Ok
LoadSucceeded == loaded.status = "ok"

\* the entries of the text of the call
EntriesGiven == db_input.val.pairs

\* the fertilizer the documentation builds from an entry: the mix of its
\* compounds, or the compound of its formula
BuiltFrom(name, obj) ==
    IF contains_key(obj, "compounds")
    THEN new_from_json_object(name, obj, is_percents, overflow_checks)
    ELSE IF contains_key(obj, "formula") /\ is_str(get(obj, "formula").val)
    THEN New(get(obj, "formula").val.str, overflow_checks)
    ELSE Err("InvalidCatalogEntry", "neither formula nor compounds")

\* the name maps to the fertilizer built from the entry
MapsTo(name, built) ==
    /\ built.status = "ok"
    /\ name \in DOMAIN known_fertilizers
    /\ DOMAIN known_fertilizers[name] = DOMAIN built.val
    /\ known_fertilizers[name] = built.val

\* the names of the text
NamesGiven == {EntriesGiven[i][1] : i \in 1..Len(EntriesGiven)}

\* the catalog after a successful call: the entries of the text under their
\* names, and the catalog of the calls before for every other name
Merged ==
    /\ \A i \in 1..Len(EntriesGiven) :
           MapsTo(EntriesGiven[i][1], BuiltFrom(EntriesGiven[i][1], EntriesGiven[i][2]))
    /\ DOMAIN known_fertilizers = DOMAIN db_before \cup NamesGiven
    /\ \A name \in DOMAIN db_before \ NamesGiven :
           /\ DOMAIN known_fertilizers[name] = DOMAIN db_before[name]
           /\ known_fertilizers[name] = db_before[name]

(* C22: after every successful load_db call of a sequence, each name of    *)
(* the text maps to the fertilizer built from its entry, and every name    *)
(* loaded by the calls before and not in the text keeps its fertilizer.    *)
C22_LaterOverrides ==
    LoadSucceeded => Merged

\* the same for the texts whose entries all have a `formula` or a `compounds` key
C22_ShapedEntries ==
    (LoadSucceeded /\ ~HasShapelessEntry) => Merged

\* a second call has redefined a name and kept another
C22_Witness ==
    /\ LoadSucceeded /\ db_loads = 2 /\ ~HasShapelessEntry
    /\ \E name \in NamesGiven \cap DOMAIN db_before :
           known_fertilizers[name].name /= db_before[name].name
    /\ DOMAIN db_before \ NamesGiven /= {}

-----------------------------------------------------------------------------
(* C23: failed web requests *)

\* the handler of c has finished
Finished(c) == handlers[c].pc = "done"

\* the request of c has failed: an error response, or a handler that panicked
Failed(c) == Finished(c) /\ handlers[c].response.status /= "ok"

\* the answer that the request of c has on a fresh service
NormalAnswer(c) ==
    IF handlers[c].request.kind \in services
    THEN Handle(handlers[c].request, WebCatalog, overflow_checks)
    ELSE Err("NotFound", <<>>)

\* both locks are released and usable
LocksUsable ==
    \A m \in DOMAIN locks :
        /\ ~locks[m].poisoned
        /\ \A c \in Clients : Finished(c) => locks[m].holder /= c

\* every finished request that is valid has its normal answer
ValidAnswered ==
    \A c \in Clients :
        Finished(c) /\ NormalAnswer(c).status = "ok"
            => handlers[c].response = NormalAnswer(c)

\* C23: once a request has failed, both catalog locks are released and usable,
\* the catalog is as it was, and every finished valid request has its normal
\* answer.
C23_FailureIsolated ==
    (\E c \in Clients : Failed(c))
        => LocksUsable /\ known_fertilizers = WebCatalog /\ ValidAnswered

\* C23, the requests that fail with an error response: as long as no handler
\* has panicked the locks are usable and valid requests have their answers.
C23_ErrorsIsolated ==
    (\A c \in Clients : handlers[c].response.status /= "panic")
        => LocksUsable /\ known_fertilizers = WebCatalog /\ ValidAnswered

\* a request has failed with an error response and another has been answered
C23_Witness ==
    \E c, d \in Clients :
        /\ Failed(c) /\ handlers[c].response.status = "err"
        /\ handlers[c].request.kind \in services
        /\ Finished(d) /\ handlers[d].response.status = "ok"

\* a valid request has found a lock poisoned by a request that panicked
C23_PoisonedWitness ==
    \E c, d \in Clients :
        /\ services = {"list", "info"}
        /\ Finished(c) /\ handlers[c].request.kind /= "list"
        /\ handlers[c].request \in {[kind |-> "info", name |-> <<"K","0">>]}
        /\ Finished(d) /\ handlers[d].request.kind = "list"
        /\ handlers[d].response.status = "panic"

-----------------------------------------------------------------------------
(* C24: the locking discipline of the handlers *)

Holds(c, m) == locks[m].holder = c

\* the handler of c is reading the catalogs
Reading(c) == handlers[c].pc \in {"serve", "return"}

\* the catalogs are read only under their mutex
ReadsUnderLock ==
    \A c \in Clients :
        Reading(c) => /\ Holds(c, "db")
                      /\ handlers[c].request.kind /= "list" => Holds(c, "elts")

\* the fertilizer catalog is locked first, the element catalog second
SameOrder == \A c \in Clients : Holds(c, "elts") => Holds(c, "db")

\* a handler that has returned, or has not started, holds no lock
ReleasedOnReturn ==
    \A c \in Clients :
        handlers[c].pc \in {"idle", "done"} => ~Holds(c, "db") /\ ~Holds(c, "elts")

\* the handler of c can take its next step
CanStep(c) ==
    \/ Reading(c)
    \/ handlers[c].pc = "lock_db" /\ locks.db.holder = 0
    \/ handlers[c].pc = "lock_elts" /\ locks.elts.holder = 0

Unfinished(c) == handlers[c].pc \notin {"idle", "done"}

\* as long as a request is in flight, some handler can take a step
NoDeadlock == (\E c \in Clients : Unfinished(c)) => \E c \in Clients : CanStep(c)

\* C24: the catalogs are read only by the holder of their mutex, the two
\* mutexes are taken in the order db, elts and released on return, some
\* handler in flight can always step, and no handler modifies a catalog.
C24_LockDiscipline ==
    /\ ReadsUnderLock
    /\ SameOrder
    /\ ReleasedOnReturn
    /\ NoDeadlock
    /\ known_fertilizers = WebCatalog

\* a handler reads under both locks while another, which needs both, waits
C24_Witness ==
    \E c, d \in Clients :
        /\ handlers[c].pc = "serve" /\ Holds(c, "db") /\ Holds(c, "elts")
        /\ handlers[d].pc = "lock_db" /\ handlers[d].request.kind = "calc"

\* both requests, each taking both locks, have been answered
C24_DoneWitness ==
    \A c \in Clients :
        /\ Finished(c) /\ handlers[c].response.status = "ok"
        /\ handlers[c].request.kind /= "list"

-----------------------------------------------------------------------------
(* C25: the count that a decimal literal contributes *)

\* the formula is one catalog symbol followed by a decimal literal
SymbolEnd(f) == RunEnd(f, 2, Lowercase)

IsSymbolWithLiteral(f) ==
    /\ f /= <<>> /\ f[1] \in AsciiUppercase
    /\ SubSeq(f, 1, SymbolEnd(f)) \in Names
    /\ SymbolEnd(f) < Len(f)
    /\ RunEnd(f, SymbolEnd(f) + 1, AsciiDigit) = Len(f)

SymbolOf(f) == SubSeq(f, 1, SymbolEnd(f))
LiteralOf(f) == DecimalValue(SubSeq(f, SymbolEnd(f) + 1, Len(f)))

\* the element of the formula is counted as often as the literal says
CountsLiteral ==
    /\ result.status = "ok"
    /\ CountOf(result.val.elements, SymbolOf(formula)) = LiteralOf(formula)
    /\ \A e \in DOMAIN result.val.elements :
           e /= SymbolOf(formula) => result.val.elements[e] = 0

\* C25: a catalog symbol followed by a decimal literal d, d = 0 and literals
\* of several digits included, is read without a panic and the symbol's
\* element is counted exactly d times.
C25_LiteralCount ==
    (Returned /\ IsSymbolWithLiteral(formula)) => CountsLiteral

\* C25 without the subtraction from 0: a literal of at least 1, or a build
\* whose u32 arithmetic wraps.
C25_PositiveLiteral ==
    (Returned /\ IsSymbolWithLiteral(formula)
        /\ (LiteralOf(formula) >= 1 \/ ~overflow_checks)) => CountsLiteral

\* a literal of several digits, with a leading zero, has been read
C25_Witness ==
    /\ Returned /\ IsSymbolWithLiteral(formula)
    /\ formula = <<"N","a","0","2">>
    /\ result.status = "ok"

\* the literal 0 in a build whose arithmetic wraps: the count is 0
C25_ZeroWitness ==
    /\ formula = <<"N","0">> /\ ~overflow_checks
    /\ result.status = "ok" /\ result.val.elements[<<"N">>] = 0

\* the literal 0 in a build with overflow checks
C25_PanicWitness ==
    /\ formula = <<"N","0">> /\ overflow_checks /\ result.status = "panic"

-----------------------------------------------------------------------------
(* C26: the letters of the name accumulator *)

\* the scan is at a place where the accumulator is emptied: an uppercase
\* letter, a digit, an opening parenthesis or the end, outside a group
AtEnd == result.status = "pending" /\ pos > Len(formula)

AtFlushPoint ==
    /\ scan.obraces = 0 /\ scan.acc /= <<>>
    /\ \/ AtEnd
       \/ Scanning /\ chr \in AsciiUppercase \cup AsciiDigit \cup {"("}

\* the step that the scan takes next
NextStep ==
    IF AtEnd THEN Finish(scan, overflow_checks)
    ELSE Branch(scan, chr, rest, overflow_checks)

\* the step has gone on past the accumulated letters: it has not ended the
\* call with an error of the pending multiplier, and it is not a digit that
\* leaves the accumulator as it is
LettersLeft(step) ==
    /\ step.res.status \in {"pending", "ok"} \/ step.looked_up.some
    /\ AtEnd \/ chr \notin AsciiDigit \/ step.scan.acc /= scan.acc

LookedUp(step) == step.looked_up = Some(scan.acc)

\* C26: where the scan leaves the letters of the accumulator behind, it has
\* looked them up in the catalog.
C26_LettersLookedUp ==
    (AtFlushPoint /\ LettersLeft(NextStep)) => LookedUp(NextStep)

\* C26 where nothing is pending: no group has just been closed and no
\* multiplier is waiting.
C26_NothingPending ==
    (AtFlushPoint /\ LettersLeft(NextStep)
        /\ ~scan.last_subcompound.some /\ ~scan.last_cnt.some) => LookedUp(NextStep)

\* C26 at an uppercase letter, whatever is pending
C26_AtUppercase ==
    (AtFlushPoint /\ ~AtEnd /\ chr \in AsciiUppercase /\ LettersLeft(NextStep))
        => LookedUp(NextStep)

\* the letters before a digit are about to be looked up
C26_Witness ==
    /\ formula = <<"N","a","2">> /\ pos = 3
    /\ AtFlushPoint /\ LettersLeft(NextStep) /\ LookedUp(NextStep)

\* letters after a flushed multiplier are looked up at an uppercase letter
C26_UppercaseWitness ==
    /\ formula = <<"N","2","a","N">> /\ pos = 4
    /\ AtFlushPoint /\ scan.last_cnt.some /\ LookedUp(NextStep)

\* letters after a closed group are left without a lookup at the end
C26_DroppedWitness ==
    /\ formula = <<"(","N",")","a">> /\ AtEnd
    /\ scan.acc = <<"a">> /\ NextStep.res.status = "ok" /\ ~NextStep.looked_up.some

-----------------------------------------------------------------------------
(* C27: an alias that cannot be converted *)

AliasAsked == info /= Pending

\* the alias parses to a compound that holds the element
ParsesWith(molecule, element) ==
    /\ molecule.status = "ok"
    /\ element \in DOMAIN molecule.val.elements
    /\ molecule.val.elements[element] >= 1

Convertible(element, alias) == ParsesWith(New(alias, overflow_checks), element)

Finite(x) == Class(x) \in {"zero", "pos"}

\* C27: the figure of an alias that does not parse, or that does not hold
\* the element, is an error value: no panic and no infinite or NaN figure.
C27_AliasError ==
    (AliasAsked /\ ~Convertible(fraction.element, info.element_alias))
        => info.figure.status = "err"

\* C27, the aliases that can be converted: the figure is a finite number
\* whenever the fraction of the element is.
C27_Convertible ==
    (AliasAsked /\ Convertible(fraction.element, info.element_alias))
        => /\ info.figure.status = "ok"
           /\ Finite(fraction.val.val) => Finite(info.figure.val.concentration)

\* a sound alias has been converted
C27_Witness ==
    /\ AliasAsked /\ formula = <<"K","N","O","3">> /\ fraction.element = <<"K">>
    /\ info.element_alias = <<"K","2","O">>
    /\ info.figure.status = "ok" /\ Finite(info.figure.val.concentration)

\* an alias without the element has ended the computation
C27_PanicWitness ==
    /\ AliasAsked /\ formula = <<"K","N","O","3">> /\ fraction.element = <<"K">>
    /\ info.element_alias = <<"N","O","3">>
    /\ info.figure.status = "panic"

\* an alias with a literal 0 has given a figure that is not a number
C27_NaNWitness ==
    /\ AliasAsked /\ fraction.element = <<"N">> /\ Finite(fraction.val.val)
    /\ info.element_alias = <<"(","N",")","0">>
    /\ info.figure.status = "ok" /\ ~Finite(info.figure.val.concentration)

-----------------------------------------------------------------------------
(* C28: divisors of 0 in the dosing operations *)

IsZero(x) == Class(x) = "zero"

\* the request divides by a quantity that is 0: the effective volume of the
\* tank, the container volume, or the portion volume of a TargetDose request
ZeroDivisor ==
    \/ effective_volume(tank) = 0
    \/ request.kind = "Solution" /\ IsZero(request.container_volume)
    \/ request.kind = "Solution" /\ request.what = "TargetDose"
           /\ IsZero(request.portion_volume)

\* every figure of the result is a finite number
FiniteResult(res) ==
    /\ Finite(res.compound_dose)
    /\ \A i \in DOMAIN res.elements_dose :
           /\ Finite(res.elements_dose[i].dose)
           /\ \A j \in DOMAIN res.elements_dose[i].aliases :
                  Finite(res.elements_dose[i].aliases[j].dose)

\* C28: a request that would divide by 0 is answered with an error, never
\* with a DiluteResult.
C28_ZeroDivisorFails ==
    (Answered /\ ZeroDivisor) => outcome.status = "err"

\* C28, the requests without a divisor of 0: every figure of a DiluteResult
\* is finite.
C28_FiniteWithoutZero ==
    (Answered /\ ~ZeroDivisor /\ outcome.status = "ok") => FiniteResult(outcome.val)

\* a request without a zero divisor has been answered with doses
C28_Witness ==
    /\ Answered /\ ~ZeroDivisor /\ outcome.status = "ok"
    /\ request.kind = "Solution" /\ request.what = "TargetDose"
    /\ outcome.val.elements_dose /= <<>> /\ FiniteResult(outcome.val)

\* a tank of effective volume 0 has been answered with infinite doses
C28_InfiniteWitness ==
    /\ Answered /\ effective_volume(tank) = 0 /\ request.kind = "Dry"
    /\ request.what = "ResultOfDose"
    /\ outcome.status = "ok" /\ ~FiniteResult(outcome.val)

\* a container of 0 ml has been answered with a DiluteResult
C28_ContainerWitness ==
    /\ Answered /\ effective_volume(tank) > 0
    /\ request.kind = "Solution" /\ IsZero(request.container_volume)
    /\ outcome.status = "ok" /\ ~FiniteResult(outcome.val)

-----------------------------------------------------------------------------
(* C29: the fractions of a mix *)

NonNegative(x) == Class(x) \in {"zero", "pos", "inf"} /\ ~Negative(x)

NonNegativeFractions(mixed) ==
    \A e \in DOMAIN mixed.elements_composition :
        NonNegative(mixed.elements_composition[e])

\* the numbers of the declaration: the four percentages, or the portions of
\* the compounds table of a mix that has been constructed (each is a number)
NumbersGiven ==
    IF mix_input.kind = "npk"
    THEN {mix_input.macros.nitrogen_percentage, mix_input.macros.p2o5_percentage,
          mix_input.macros.k2o_percentage, mix_input.macros.mgo_percentage}
    ELSE {extract_toml_number(pair[2]).val :
             pair \in SeqRange(get(mix_input.obj, "compounds").val.pairs)}

\* the compounds of the declaration all have counts of at least 1
SoundCompounds ==
    mix_input.kind = "toml" =>
        \A pair \in SeqRange(get(mix_input.obj, "compounds").val.pairs) :
            LET compound == New(pair[1], overflow_checks)
            IN  \A e \in DOMAIN compound.val.elements : compound.val.elements[e] >= 1

\* C29: a mix that has been constructed has no negative fraction.
C29_NonNegativeFractions ==
    mix.status = "ok" => NonNegativeFractions(mix.val)

\* C29 for the declarations without a negative number whose compounds have
\* counts of at least 1
C29_NonNegativeInputs ==
    (mix.status = "ok" /\ SoundCompounds /\ \A x \in NumbersGiven : ~Negative(x))
        => NonNegativeFractions(mix.val)

\* a mix of two compounds with positive portions has been constructed
C29_Witness ==
    /\ mix.status = "ok" /\ mix_input.kind = "toml"
    /\ Len(get(mix_input.obj, "compounds").val.pairs) = 2
    /\ \A x \in NumbersGiven : ~Negative(x)
    /\ DOMAIN mix.val.elements_composition /= {}
    /\ NonNegativeFractions(mix.val)

\* a negative percentage has been left out of a mix built from macro percentages
C29_NpkWitness ==
    /\ mix.status = "ok" /\ mix_input.kind = "npk"
    /\ Negative(mix_input.macros.nitrogen_percentage)
    /\ <<"N">> \notin DOMAIN mix.val.elements_composition
    /\ <<"P">> \in DOMAIN mix.val.elements_composition

\* a negative portion has been stored as a negative fraction
C29_NegativeWitness ==
    /\ mix.status = "ok" /\ mix_input.kind = "toml"
    /\ \E e \in DOMAIN mix.val.elements_composition :
           Negative(mix.val.elements_composition[e])

-----------------------------------------------------------------------------
(* C30: the recursion of Compound::new *)

\* the strings handed to a recursive Compound::new by the step b that the
\* scan with locals s takes at the character c, r being the text after c:
\* the text of a group at its closing parenthesis, or the remainder of a hydrate
CallsAt(s, c, r, b) ==
    IF s.obraces > 0
    THEN (IF b.res.status /= "pending" \/ b.scan.obraces = 0 THEN {s.acc} ELSE {})
    ELSE IF c = "*" /\ r.status = "ok" /\ ByteLen(r.val) >= 2 THEN {remain(r.val)}
    ELSE {}

RECURSIVE CallDepthFrom(_, _, _, _)

\* the depth of the calls of one step; an argument that is not shorter than
\* the string of the caller counts as a depth beyond that of any formula (1000)
DepthOfCalls(calls, len, checks) ==
    IF calls = {} THEN 0
    ELSE LET a == CHOOSE x \in calls : TRUE
         IN  IF Len(a) >= len THEN 1000
             ELSE 1 + CallDepthFrom(a, 1, NewLocals(a), checks)

\* the deeper of the calls of the step b at character i and of the later steps
DepthOfStep(f, i, s, b, here, checks) ==
    IF b.res.status /= "pending" \/ i = Len(f) THEN here
    ELSE LET later == CallDepthFrom(f, i + 1, b.scan, checks)
         IN  IF here >= later THEN here ELSE later

\* the deepest nesting of recursive calls below the scan of f from character i on
CallDepthFrom(f, i, s, checks) ==
    IF i > Len(f) THEN 0
    ELSE LET b == Branch(s, f[i], SliceFrom(f, i), checks)
         IN  DepthOfStep(f, i, s, b,
                         DepthOfCalls(CallsAt(s, f[i], SliceFrom(f, i), b),
                                      Len(f), checks),
                         checks)

RecursionDepth == CallDepthFrom(formula, 1, NewLocals(formula), overflow_checks)

\* the recursive calls of the step the scan is about to take
CallsNow == CallsAt(scan, chr, rest, Branch(scan, chr, rest, overflow_checks))

\* C30: every recursive call, for a group or for the remainder of a hydrate,
\* at any depth, is given a string shorter than its caller's, the depth of the
\* recursion is at most the length of the formula, and the scan moves on by
\* one character per step until the end of the string.
C30_Terminates ==
    /\ Scanning => \A a \in CallsNow : Len(a) < Len(formula)
    /\ RecursionDepth <= Len(formula)
    /\ pos \in 1..(Len(formula) + 2)
    /\ Returned => pos <= Len(formula) + 2

\* three nested groups have been parsed: the recursion is three deep
C30_Witness ==
    /\ formula = <<"(","(","(","C","a",")",")",")">>
    /\ result.status = "ok" /\ RecursionDepth = 3

\* the scan is at the '*' of a hydrate with a multiplier: the remainder is parsed
C30_HydrateWitness ==
    /\ Scanning /\ scan.obraces = 0 /\ chr = "*"
    /\ rest.status = "ok" /\ Len(rest.val) >= 2 /\ Head(rest.val) \in AsciiDigit
    /\ CallsNow = {Tail(rest.val)}
    /\ Branch(scan, chr, rest, overflow_checks).res.status = "pending"

=============================================================================
